---- MODULE Spec2Model ----
(***************************************************************************)
(* Model of photon34/f33_dataAutomation: the funding parser, the           *)
(* aggregation pipeline top_funded_companies (tester.py, tester2.py), the   *)
(* auto-discovery CLI of tester2.py and the deduplication script            *)
(* usun_duplikat.py.                                                        *)
(*                                                                          *)
(* Text is a sequence of characters, each a one-character string, or the    *)
(* name "U+XXXX" of its code point when the character cannot be written in  *)
(* a string of a module.                                                    *)
(* A float is held as the decimal m * 10^e whose nearest double it is,      *)
(* with the number of doubles it lies off when a product rounded away;      *)
(* products are computed on 53-bit significands as the code computes them.  *)
(***************************************************************************)
EXTENDS Integers, Sequences, FiniteSets, TLC

(* ------------------------------------------------------------------ *)
(* Bounds of the model                                                 *)
(* ------------------------------------------------------------------ *)
\* longest raw funding text enumerated for the parser
MaxLen == 4
\* most rows of an input table
MaxRows == 3
\* largest top_n passed to top_funded_companies
MaxTop == 3
\* most sheets of the workbook usun_duplikat.py reads
MaxSheets == 2

(* ------------------------------------------------------------------ *)
(* Characters and str methods                                          *)
(* ------------------------------------------------------------------ *)
\* The tables below are those of the Unicode database of the interpreter
\* (14.0), one entry per character.  A character that cannot be written in
\* a string of a module stands under the name of its code point, as in
\* "U+0178": these are U+0000, the backquote U+0060, the characters from
\* U+0100 on whose code point ends in a byte below 80 (hexadecimal), and
\* those beyond U+FFFF.  Every other character stands for itself.

\* the cased characters of str.title() and of the final-sigma rule
Cased == {
  "A", "B", "C", "D", "E", "F", "G", "H", "I", "J", "K", "L", "M", "N",
  "O", "P", "Q", "R", "S", "T", "U", "V", "W", "X", "Y", "Z", "a", "b",
  "c", "d", "e", "f", "g", "h", "i", "j", "k", "l", "m", "n", "o", "p",
  "q", "r", "s", "t", "u", "v", "w", "x", "y", "z", "ª", "µ", "º", "À",
  "Á", "Â", "Ã", "Ä", "Å", "Æ", "Ç", "È", "É", "Ê", "Ë", "Ì", "Í", "Î",
  "Ï", "Ð", "Ñ", "Ò", "Ó", "Ô", "Õ", "Ö", "Ø", "Ù", "Ú", "Û", "Ü", "Ý",
  "Þ", "ß", "à", "á", "â", "ã", "ä", "å", "æ", "ç", "è", "é", "ê", "ë",
  "ì", "í", "î", "ï", "ð", "ñ", "ò", "ó", "ô", "õ", "ö", "ø", "ù", "ú",
  "û", "ü", "ý", "þ", "ÿ", "U+0100", "U+0101", "U+0102", "U+0103",
  "U+0104", "U+0105", "U+0106", "U+0107", "U+0108", "U+0109", "U+010A",
  "U+010B", "U+010C", "U+010D", "U+010E", "U+010F", "U+0110", "U+0111",
  "U+0112", "U+0113", "U+0114", "U+0115", "U+0116", "U+0117", "U+0118",
  "U+0119", "U+011A", "U+011B", "U+011C", "U+011D", "U+011E", "U+011F",
  "U+0120", "U+0121", "U+0122", "U+0123", "U+0124", "U+0125", "U+0126",
  "U+0127", "U+0128", "U+0129", "U+012A", "U+012B", "U+012C", "U+012D",
  "U+012E", "U+012F", "U+0130", "U+0131", "U+0132", "U+0133", "U+0134",
  "U+0135", "U+0136", "U+0137", "U+0138", "U+0139", "U+013A", "U+013B",
  "U+013C", "U+013D", "U+013E", "U+013F", "U+0140", "U+0141", "U+0142",
  "U+0143", "U+0144", "U+0145", "U+0146", "U+0147", "U+0148", "U+0149",
  "U+014A", "U+014B", "U+014C", "U+014D", "U+014E", "U+014F", "U+0150",
  "U+0151", "U+0152", "U+0153", "U+0154", "U+0155", "U+0156", "U+0157",
  "U+0158", "U+0159", "U+015A", "U+015B", "U+015C", "U+015D", "U+015E",
  "U+015F", "U+0160", "U+0161", "U+0162", "U+0163", "U+0164", "U+0165",
  "U+0166", "U+0167", "U+0168", "U+0169", "U+016A", "U+016B", "U+016C",
  "U+016D", "U+016E", "U+016F", "U+0170", "U+0171", "U+0172", "U+0173",
  "U+0174", "U+0175", "U+0176", "U+0177", "U+0178", "U+0179", "U+017A",
  "U+017B", "U+017C", "U+017D", "U+017E", "U+017F", "ƀ", "Ɓ", "Ƃ", "ƃ",
  "Ƅ", "ƅ", "Ɔ", "Ƈ", "ƈ", "Ɖ", "Ɗ", "Ƌ", "ƌ", "ƍ", "Ǝ", "Ə", "Ɛ", "Ƒ",
  "ƒ", "Ɠ", "Ɣ", "ƕ", "Ɩ", "Ɨ", "Ƙ", "ƙ", "ƚ", "ƛ", "Ɯ", "Ɲ", "ƞ", "Ɵ",
  "Ơ", "ơ", "Ƣ", "ƣ", "Ƥ", "ƥ", "Ʀ", "Ƨ", "ƨ", "Ʃ", "ƪ", "ƫ", "Ƭ", "ƭ",
  "Ʈ", "Ư", "ư", "Ʊ", "Ʋ", "Ƴ", "ƴ", "Ƶ", "ƶ", "Ʒ", "Ƹ", "ƹ", "ƺ", "Ƽ",
  "ƽ", "ƾ", "ƿ", "Ǆ", "ǅ", "ǆ", "Ǉ", "ǈ", "ǉ", "Ǌ", "ǋ", "ǌ", "Ǎ", "ǎ",
  "Ǐ", "ǐ", "Ǒ", "ǒ", "Ǔ", "ǔ", "Ǖ", "ǖ", "Ǘ", "ǘ", "Ǚ", "ǚ", "Ǜ", "ǜ",
  "ǝ", "Ǟ", "ǟ", "Ǡ", "ǡ", "Ǣ", "ǣ", "Ǥ", "ǥ", "Ǧ", "ǧ", "Ǩ", "ǩ", "Ǫ",
  "ǫ", "Ǭ", "ǭ", "Ǯ", "ǯ", "ǰ", "Ǳ", "ǲ", "ǳ", "Ǵ", "ǵ", "Ƕ", "Ƿ", "Ǹ",
  "ǹ", "Ǻ", "ǻ", "Ǽ", "ǽ", "Ǿ", "ǿ", "U+0200", "U+0201", "U+0202",
  "U+0203", "U+0204", "U+0205", "U+0206", "U+0207", "U+0208", "U+0209",
  "U+020A", "U+020B", "U+020C", "U+020D", "U+020E", "U+020F", "U+0210",
  "U+0211", "U+0212", "U+0213", "U+0214", "U+0215", "U+0216", "U+0217",
  "U+0218", "U+0219", "U+021A", "U+021B", "U+021C", "U+021D", "U+021E",
  "U+021F", "U+0220", "U+0221", "U+0222", "U+0223", "U+0224", "U+0225",
  "U+0226", "U+0227", "U+0228", "U+0229", "U+022A", "U+022B", "U+022C",
  "U+022D", "U+022E", "U+022F", "U+0230", "U+0231", "U+0232", "U+0233",
  "U+0234", "U+0235", "U+0236", "U+0237", "U+0238", "U+0239", "U+023A",
  "U+023B", "U+023C", "U+023D", "U+023E", "U+023F", "U+0240", "U+0241",
  "U+0242", "U+0243", "U+0244", "U+0245", "U+0246", "U+0247", "U+0248",
  "U+0249", "U+024A", "U+024B", "U+024C", "U+024D", "U+024E", "U+024F",
  "U+0250", "U+0251", "U+0252", "U+0253", "U+0254", "U+0255", "U+0256",
  "U+0257", "U+0258", "U+0259", "U+025A", "U+025B", "U+025C", "U+025D",
  "U+025E", "U+025F", "U+0260", "U+0261", "U+0262", "U+0263", "U+0264",
  "U+0265", "U+0266", "U+0267", "U+0268", "U+0269", "U+026A", "U+026B",
  "U+026C", "U+026D", "U+026E", "U+026F", "U+0270", "U+0271", "U+0272",
  "U+0273", "U+0274", "U+0275", "U+0276", "U+0277", "U+0278", "U+0279",
  "U+027A", "U+027B", "U+027C", "U+027D", "U+027E", "U+027F", "ʀ", "ʁ",
  "ʂ", "ʃ", "ʄ", "ʅ", "ʆ", "ʇ", "ʈ", "ʉ", "ʊ", "ʋ", "ʌ", "ʍ", "ʎ", "ʏ",
  "ʐ", "ʑ", "ʒ", "ʓ", "ʕ", "ʖ", "ʗ", "ʘ", "ʙ", "ʚ", "ʛ", "ʜ", "ʝ", "ʞ",
  "ʟ", "ʠ", "ʡ", "ʢ", "ʣ", "ʤ", "ʥ", "ʦ", "ʧ", "ʨ", "ʩ", "ʪ", "ʫ", "ʬ",
  "ʭ", "ʮ", "ʯ", "ʰ", "ʱ", "ʲ", "ʳ", "ʴ", "ʵ", "ʶ", "ʷ", "ʸ", "ˀ", "ˁ",
  "ˠ", "ˡ", "ˢ", "ˣ", "ˤ", "U+0345", "U+0370", "U+0371", "U+0372",
  "U+0373", "U+0376", "U+0377", "U+037A", "U+037B", "U+037C", "U+037D",
  "U+037F", "Ά", "Έ", "Ή", "Ί", "Ό", "Ύ", "Ώ", "ΐ", "Α", "Β", "Γ", "Δ",
  "Ε", "Ζ", "Η", "Θ", "Ι", "Κ", "Λ", "Μ", "Ν", "Ξ", "Ο", "Π", "Ρ", "Σ",
  "Τ", "Υ", "Φ", "Χ", "Ψ", "Ω", "Ϊ", "Ϋ", "ά", "έ", "ή", "ί", "ΰ", "α",
  "β", "γ", "δ", "ε", "ζ", "η", "θ", "ι", "κ", "λ", "μ", "ν", "ξ", "ο",
  "π", "ρ", "ς", "σ", "τ", "υ", "φ", "χ", "ψ", "ω", "ϊ", "ϋ", "ό", "ύ",
  "ώ", "Ϗ", "ϐ", "ϑ", "ϒ", "ϓ", "ϔ", "ϕ", "ϖ", "ϗ", "Ϙ", "ϙ", "Ϛ", "ϛ",
  "Ϝ", "ϝ", "Ϟ", "ϟ", "Ϡ", "ϡ", "Ϣ", "ϣ", "Ϥ", "ϥ", "Ϧ", "ϧ", "Ϩ", "ϩ",
  "Ϫ", "ϫ", "Ϭ", "ϭ", "Ϯ", "ϯ", "ϰ", "ϱ", "ϲ", "ϳ", "ϴ", "ϵ", "Ϸ", "ϸ",
  "Ϲ", "Ϻ", "ϻ", "ϼ", "Ͻ", "Ͼ", "Ͽ", "U+0400", "U+0401", "U+0402",
  "U+0403", "U+0404", "U+0405", "U+0406", "U+0407", "U+0408", "U+0409",
  "U+040A", "U+040B", "U+040C", "U+040D", "U+040E", "U+040F", "U+0410",
  "U+0411", "U+0412", "U+0413", "U+0414", "U+0415", "U+0416", "U+0417",
  "U+0418", "U+0419", "U+041A", "U+041B", "U+041C", "U+041D", "U+041E",
  "U+041F", "U+0420", "U+0421", "U+0422", "U+0423", "U+0424", "U+0425",
  "U+0426", "U+0427", "U+0428", "U+0429", "U+042A", "U+042B", "U+042C",
  "U+042D", "U+042E", "U+042F", "U+0430", "U+0431", "U+0432", "U+0433",
  "U+0434", "U+0435", "U+0436", "U+0437", "U+0438", "U+0439", "U+043A",
  "U+043B", "U+043C", "U+043D", "U+043E", "U+043F", "U+0440", "U+0441",
  "U+0442", "U+0443", "U+0444", "U+0445", "U+0446", "U+0447", "U+0448",
  "U+0449", "U+044A", "U+044B", "U+044C", "U+044D", "U+044E", "U+044F",
  "U+0450", "U+0451", "U+0452", "U+0453", "U+0454", "U+0455", "U+0456",
  "U+0457", "U+0458", "U+0459", "U+045A", "U+045B", "U+045C", "U+045D",
  "U+045E", "U+045F", "U+0460", "U+0461", "U+0462", "U+0463", "U+0464",
  "U+0465", "U+0466", "U+0467", "U+0468", "U+0469", "U+046A", "U+046B",
  "U+046C", "U+046D", "U+046E", "U+046F", "U+0470", "U+0471", "U+0472",
  "U+0473", "U+0474", "U+0475", "U+0476", "U+0477", "U+0478", "U+0479",
  "U+047A", "U+047B", "U+047C", "U+047D", "U+047E", "U+047F", "Ҁ", "ҁ",
  "Ҋ", "ҋ", "Ҍ", "ҍ", "Ҏ", "ҏ", "Ґ", "ґ", "Ғ", "ғ", "Ҕ", "ҕ", "Җ", "җ",
  "Ҙ", "ҙ", "Қ", "қ", "Ҝ", "ҝ", "Ҟ", "ҟ", "Ҡ", "ҡ", "Ң", "ң", "Ҥ", "ҥ",
  "Ҧ", "ҧ", "Ҩ", "ҩ", "Ҫ", "ҫ", "Ҭ", "ҭ", "Ү", "ү", "Ұ", "ұ", "Ҳ", "ҳ",
  "Ҵ", "ҵ", "Ҷ", "ҷ", "Ҹ", "ҹ", "Һ", "һ", "Ҽ", "ҽ", "Ҿ", "ҿ", "Ӏ", "Ӂ",
  "ӂ", "Ӄ", "ӄ", "Ӆ", "ӆ", "Ӈ", "ӈ", "Ӊ", "ӊ", "Ӌ", "ӌ", "Ӎ", "ӎ", "ӏ",
  "Ӑ", "ӑ", "Ӓ", "ӓ", "Ӕ", "ӕ", "Ӗ", "ӗ", "Ә", "ә", "Ӛ", "ӛ", "Ӝ", "ӝ",
  "Ӟ", "ӟ", "Ӡ", "ӡ", "Ӣ", "ӣ", "Ӥ", "ӥ", "Ӧ", "ӧ", "Ө", "ө", "Ӫ", "ӫ",
  "Ӭ", "ӭ", "Ӯ", "ӯ", "Ӱ", "ӱ", "Ӳ", "ӳ", "Ӵ", "ӵ", "Ӷ", "ӷ", "Ӹ", "ӹ",
  "Ӻ", "ӻ", "Ӽ", "ӽ", "Ӿ", "ӿ", "U+0500", "U+0501", "U+0502", "U+0503",
  "U+0504", "U+0505", "U+0506", "U+0507", "U+0508", "U+0509", "U+050A",
  "U+050B", "U+050C", "U+050D", "U+050E", "U+050F", "U+0510", "U+0511",
  "U+0512", "U+0513", "U+0514", "U+0515", "U+0516", "U+0517", "U+0518",
  "U+0519", "U+051A", "U+051B", "U+051C", "U+051D", "U+051E", "U+051F",
  "U+0520", "U+0521", "U+0522", "U+0523", "U+0524", "U+0525", "U+0526",
  "U+0527", "U+0528", "U+0529", "U+052A", "U+052B", "U+052C", "U+052D",
  "U+052E", "U+052F", "U+0531", "U+0532", "U+0533", "U+0534", "U+0535",
  "U+0536", "U+0537", "U+0538", "U+0539", "U+053A", "U+053B", "U+053C",
  "U+053D", "U+053E", "U+053F", "U+0540", "U+0541", "U+0542", "U+0543",
  "U+0544", "U+0545", "U+0546", "U+0547", "U+0548", "U+0549", "U+054A",
  "U+054B", "U+054C", "U+054D", "U+054E", "U+054F", "U+0550", "U+0551",
  "U+0552", "U+0553", "U+0554", "U+0555", "U+0556", "U+0560", "U+0561",
  "U+0562", "U+0563", "U+0564", "U+0565", "U+0566", "U+0567", "U+0568",
  "U+0569", "U+056A", "U+056B", "U+056C", "U+056D", "U+056E", "U+056F",
  "U+0570", "U+0571", "U+0572", "U+0573", "U+0574", "U+0575", "U+0576",
  "U+0577", "U+0578", "U+0579", "U+057A", "U+057B", "U+057C", "U+057D",
  "U+057E", "U+057F", "ր", "ց", "ւ", "փ", "ք", "օ", "ֆ", "և", "ֈ", "Ⴀ",
  "Ⴁ", "Ⴂ", "Ⴃ", "Ⴄ", "Ⴅ", "Ⴆ", "Ⴇ", "Ⴈ", "Ⴉ", "Ⴊ", "Ⴋ", "Ⴌ", "Ⴍ", "Ⴎ",
  "Ⴏ", "Ⴐ", "Ⴑ", "Ⴒ", "Ⴓ", "Ⴔ", "Ⴕ", "Ⴖ", "Ⴗ", "Ⴘ", "Ⴙ", "Ⴚ", "Ⴛ", "Ⴜ",
  "Ⴝ", "Ⴞ", "Ⴟ", "Ⴠ", "Ⴡ", "Ⴢ", "Ⴣ", "Ⴤ", "Ⴥ", "Ⴧ", "Ⴭ", "ა", "ბ", "გ",
  "დ", "ე", "ვ", "ზ", "თ", "ი", "კ", "ლ", "მ", "ნ", "ო", "პ", "ჟ", "რ",
  "ს", "ტ", "უ", "ფ", "ქ", "ღ", "ყ", "შ", "ჩ", "ც", "ძ", "წ", "ჭ", "ხ",
  "ჯ", "ჰ", "ჱ", "ჲ", "ჳ", "ჴ", "ჵ", "ჶ", "ჷ", "ჸ", "ჹ", "ჺ", "ჽ", "ჾ",
  "ჿ", "Ꭰ", "Ꭱ", "Ꭲ", "Ꭳ", "Ꭴ", "Ꭵ", "Ꭶ", "Ꭷ", "Ꭸ", "Ꭹ", "Ꭺ", "Ꭻ", "Ꭼ",
  "Ꭽ", "Ꭾ", "Ꭿ", "Ꮀ", "Ꮁ", "Ꮂ", "Ꮃ", "Ꮄ", "Ꮅ", "Ꮆ", "Ꮇ", "Ꮈ", "Ꮉ", "Ꮊ",
  "Ꮋ", "Ꮌ", "Ꮍ", "Ꮎ", "Ꮏ", "Ꮐ", "Ꮑ", "Ꮒ", "Ꮓ", "Ꮔ", "Ꮕ", "Ꮖ", "Ꮗ", "Ꮘ",
  "Ꮙ", "Ꮚ", "Ꮛ", "Ꮜ", "Ꮝ", "Ꮞ", "Ꮟ", "Ꮠ", "Ꮡ", "Ꮢ", "Ꮣ", "Ꮤ", "Ꮥ", "Ꮦ",
  "Ꮧ", "Ꮨ", "Ꮩ", "Ꮪ", "Ꮫ", "Ꮬ", "Ꮭ", "Ꮮ", "Ꮯ", "Ꮰ", "Ꮱ", "Ꮲ", "Ꮳ", "Ꮴ",
  "Ꮵ", "Ꮶ", "Ꮷ", "Ꮸ", "Ꮹ", "Ꮺ", "Ꮻ", "Ꮼ", "Ꮽ", "Ꮾ", "Ꮿ", "Ᏸ", "Ᏹ", "Ᏺ",
  "Ᏻ", "Ᏼ", "Ᏽ", "ᏸ", "ᏹ", "ᏺ", "ᏻ", "ᏼ", "ᏽ", "ᲀ", "ᲁ", "ᲂ", "ᲃ", "ᲄ",
  "ᲅ", "ᲆ", "ᲇ", "ᲈ", "Ა", "Ბ", "Გ", "Დ", "Ე", "Ვ", "Ზ", "Თ", "Ი", "Კ",
  "Ლ", "Მ", "Ნ", "Ო", "Პ", "Ჟ", "Რ", "Ს", "Ტ", "Უ", "Ფ", "Ქ", "Ღ", "Ყ",
  "Შ", "Ჩ", "Ც", "Ძ", "Წ", "Ჭ", "Ხ", "Ჯ", "Ჰ", "Ჱ", "Ჲ", "Ჳ", "Ჴ", "Ჵ",
  "Ჶ", "Ჷ", "Ჸ", "Ჹ", "Ჺ", "Ჽ", "Ჾ", "Ჿ", "U+1D00", "U+1D01", "U+1D02",
  "U+1D03", "U+1D04", "U+1D05", "U+1D06", "U+1D07", "U+1D08", "U+1D09",
  "U+1D0A", "U+1D0B", "U+1D0C", "U+1D0D", "U+1D0E", "U+1D0F", "U+1D10",
  "U+1D11", "U+1D12", "U+1D13", "U+1D14", "U+1D15", "U+1D16", "U+1D17",
  "U+1D18", "U+1D19", "U+1D1A", "U+1D1B", "U+1D1C", "U+1D1D", "U+1D1E",
  "U+1D1F", "U+1D20", "U+1D21", "U+1D22", "U+1D23", "U+1D24", "U+1D25",
  "U+1D26", "U+1D27", "U+1D28", "U+1D29", "U+1D2A", "U+1D2B", "U+1D2C",
  "U+1D2D", "U+1D2E", "U+1D2F", "U+1D30", "U+1D31", "U+1D32", "U+1D33",
  "U+1D34", "U+1D35", "U+1D36", "U+1D37", "U+1D38", "U+1D39", "U+1D3A",
  "U+1D3B", "U+1D3C", "U+1D3D", "U+1D3E", "U+1D3F", "U+1D40", "U+1D41",
  "U+1D42", "U+1D43", "U+1D44", "U+1D45", "U+1D46", "U+1D47", "U+1D48",
  "U+1D49", "U+1D4A", "U+1D4B", "U+1D4C", "U+1D4D", "U+1D4E", "U+1D4F",
  "U+1D50", "U+1D51", "U+1D52", "U+1D53", "U+1D54", "U+1D55", "U+1D56",
  "U+1D57", "U+1D58", "U+1D59", "U+1D5A", "U+1D5B", "U+1D5C", "U+1D5D",
  "U+1D5E", "U+1D5F", "U+1D60", "U+1D61", "U+1D62", "U+1D63", "U+1D64",
  "U+1D65", "U+1D66", "U+1D67", "U+1D68", "U+1D69", "U+1D6A", "U+1D6B",
  "U+1D6C", "U+1D6D", "U+1D6E", "U+1D6F", "U+1D70", "U+1D71", "U+1D72",
  "U+1D73", "U+1D74", "U+1D75", "U+1D76", "U+1D77", "U+1D78", "U+1D79",
  "U+1D7A", "U+1D7B", "U+1D7C", "U+1D7D", "U+1D7E", "U+1D7F", "ᶀ", "ᶁ",
  "ᶂ", "ᶃ", "ᶄ", "ᶅ", "ᶆ", "ᶇ", "ᶈ", "ᶉ", "ᶊ", "ᶋ", "ᶌ", "ᶍ", "ᶎ", "ᶏ",
  "ᶐ", "ᶑ", "ᶒ", "ᶓ", "ᶔ", "ᶕ", "ᶖ", "ᶗ", "ᶘ", "ᶙ", "ᶚ", "ᶛ", "ᶜ", "ᶝ",
  "ᶞ", "ᶟ", "ᶠ", "ᶡ", "ᶢ", "ᶣ", "ᶤ", "ᶥ", "ᶦ", "ᶧ", "ᶨ", "ᶩ", "ᶪ", "ᶫ",
  "ᶬ", "ᶭ", "ᶮ", "ᶯ", "ᶰ", "ᶱ", "ᶲ", "ᶳ", "ᶴ", "ᶵ", "ᶶ", "ᶷ", "ᶸ", "ᶹ",
  "ᶺ", "ᶻ", "ᶼ", "ᶽ", "ᶾ", "ᶿ", "U+1E00", "U+1E01", "U+1E02", "U+1E03",
  "U+1E04", "U+1E05", "U+1E06", "U+1E07", "U+1E08", "U+1E09", "U+1E0A",
  "U+1E0B", "U+1E0C", "U+1E0D", "U+1E0E", "U+1E0F", "U+1E10", "U+1E11",
  "U+1E12", "U+1E13", "U+1E14", "U+1E15", "U+1E16", "U+1E17", "U+1E18",
  "U+1E19", "U+1E1A", "U+1E1B", "U+1E1C", "U+1E1D", "U+1E1E", "U+1E1F",
  "U+1E20", "U+1E21", "U+1E22", "U+1E23", "U+1E24", "U+1E25", "U+1E26",
  "U+1E27", "U+1E28", "U+1E29", "U+1E2A", "U+1E2B", "U+1E2C", "U+1E2D",
  "U+1E2E", "U+1E2F", "U+1E30", "U+1E31", "U+1E32", "U+1E33", "U+1E34",
  "U+1E35", "U+1E36", "U+1E37", "U+1E38", "U+1E39", "U+1E3A", "U+1E3B",
  "U+1E3C", "U+1E3D", "U+1E3E", "U+1E3F", "U+1E40", "U+1E41", "U+1E42",
  "U+1E43", "U+1E44", "U+1E45", "U+1E46", "U+1E47", "U+1E48", "U+1E49",
  "U+1E4A", "U+1E4B", "U+1E4C", "U+1E4D", "U+1E4E", "U+1E4F", "U+1E50",
  "U+1E51", "U+1E52", "U+1E53", "U+1E54", "U+1E55", "U+1E56", "U+1E57",
  "U+1E58", "U+1E59", "U+1E5A", "U+1E5B", "U+1E5C", "U+1E5D", "U+1E5E",
  "U+1E5F", "U+1E60", "U+1E61", "U+1E62", "U+1E63", "U+1E64", "U+1E65",
  "U+1E66", "U+1E67", "U+1E68", "U+1E69", "U+1E6A", "U+1E6B", "U+1E6C",
  "U+1E6D", "U+1E6E", "U+1E6F", "U+1E70", "U+1E71", "U+1E72", "U+1E73",
  "U+1E74", "U+1E75", "U+1E76", "U+1E77", "U+1E78", "U+1E79", "U+1E7A",
  "U+1E7B", "U+1E7C", "U+1E7D", "U+1E7E", "U+1E7F", "Ẁ", "ẁ", "Ẃ", "ẃ",
  "Ẅ", "ẅ", "Ẇ", "ẇ", "Ẉ", "ẉ", "Ẋ", "ẋ", "Ẍ", "ẍ", "Ẏ", "ẏ", "Ẑ", "ẑ",
  "Ẓ", "ẓ", "Ẕ", "ẕ", "ẖ", "ẗ", "ẘ", "ẙ", "ẚ", "ẛ", "ẜ", "ẝ", "ẞ", "ẟ",
  "Ạ", "ạ", "Ả", "ả", "Ấ", "ấ", "Ầ", "ầ", "Ẩ", "ẩ", "Ẫ", "ẫ", "Ậ", "ậ",
  "Ắ", "ắ", "Ằ", "ằ", "Ẳ", "ẳ", "Ẵ", "ẵ", "Ặ", "ặ", "Ẹ", "ẹ", "Ẻ", "ẻ",
  "Ẽ", "ẽ", "Ế", "ế", "Ề", "ề", "Ể", "ể", "Ễ", "ễ", "Ệ", "ệ", "Ỉ", "ỉ",
  "Ị", "ị", "Ọ", "ọ", "Ỏ", "ỏ", "Ố", "ố", "Ồ", "ồ", "Ổ", "ổ", "Ỗ", "ỗ",
  "Ộ", "ộ", "Ớ", "ớ", "Ờ", "ờ", "Ở", "ở", "Ỡ", "ỡ", "Ợ", "ợ", "Ụ", "ụ",
  "Ủ", "ủ", "Ứ", "ứ", "Ừ", "ừ", "Ử", "ử", "Ữ", "ữ", "Ự", "ự", "Ỳ", "ỳ",
  "Ỵ", "ỵ", "Ỷ", "ỷ", "Ỹ", "ỹ", "Ỻ", "ỻ", "Ỽ", "ỽ", "Ỿ", "ỿ", "U+1F00",
  "U+1F01", "U+1F02", "U+1F03", "U+1F04", "U+1F05", "U+1F06", "U+1F07",
  "U+1F08", "U+1F09", "U+1F0A", "U+1F0B", "U+1F0C", "U+1F0D", "U+1F0E",
  "U+1F0F", "U+1F10", "U+1F11", "U+1F12", "U+1F13", "U+1F14", "U+1F15",
  "U+1F18", "U+1F19", "U+1F1A", "U+1F1B", "U+1F1C", "U+1F1D", "U+1F20",
  "U+1F21", "U+1F22", "U+1F23", "U+1F24", "U+1F25", "U+1F26", "U+1F27",
  "U+1F28", "U+1F29", "U+1F2A", "U+1F2B", "U+1F2C", "U+1F2D", "U+1F2E",
  "U+1F2F", "U+1F30", "U+1F31", "U+1F32", "U+1F33", "U+1F34", "U+1F35",
  "U+1F36", "U+1F37", "U+1F38", "U+1F39", "U+1F3A", "U+1F3B", "U+1F3C",
  "U+1F3D", "U+1F3E", "U+1F3F", "U+1F40", "U+1F41", "U+1F42", "U+1F43",
  "U+1F44", "U+1F45", "U+1F48", "U+1F49", "U+1F4A", "U+1F4B", "U+1F4C",
  "U+1F4D", "U+1F50", "U+1F51", "U+1F52", "U+1F53", "U+1F54", "U+1F55",
  "U+1F56", "U+1F57", "U+1F59", "U+1F5B", "U+1F5D", "U+1F5F", "U+1F60",
  "U+1F61", "U+1F62", "U+1F63", "U+1F64", "U+1F65", "U+1F66", "U+1F67",
  "U+1F68", "U+1F69", "U+1F6A", "U+1F6B", "U+1F6C", "U+1F6D", "U+1F6E",
  "U+1F6F", "U+1F70", "U+1F71", "U+1F72", "U+1F73", "U+1F74", "U+1F75",
  "U+1F76", "U+1F77", "U+1F78", "U+1F79", "U+1F7A", "U+1F7B", "U+1F7C",
  "U+1F7D", "ᾀ", "ᾁ", "ᾂ", "ᾃ", "ᾄ", "ᾅ", "ᾆ", "ᾇ", "ᾈ", "ᾉ", "ᾊ", "ᾋ",
  "ᾌ", "ᾍ", "ᾎ", "ᾏ", "ᾐ", "ᾑ", "ᾒ", "ᾓ", "ᾔ", "ᾕ", "ᾖ", "ᾗ", "ᾘ", "ᾙ",
  "ᾚ", "ᾛ", "ᾜ", "ᾝ", "ᾞ", "ᾟ", "ᾠ", "ᾡ", "ᾢ", "ᾣ", "ᾤ", "ᾥ", "ᾦ", "ᾧ",
  "ᾨ", "ᾩ", "ᾪ", "ᾫ", "ᾬ", "ᾭ", "ᾮ", "ᾯ", "ᾰ", "ᾱ", "ᾲ", "ᾳ", "ᾴ", "ᾶ",
  "ᾷ", "Ᾰ", "Ᾱ", "Ὰ", "Ά", "ᾼ", "ι", "ῂ", "ῃ", "ῄ", "ῆ", "ῇ", "Ὲ", "Έ",
  "Ὴ", "Ή", "ῌ", "ῐ", "ῑ", "ῒ", "ΐ", "ῖ", "ῗ", "Ῐ", "Ῑ", "Ὶ", "Ί", "ῠ",
  "ῡ", "ῢ", "ΰ", "ῤ", "ῥ", "ῦ", "ῧ", "Ῠ", "Ῡ", "Ὺ", "Ύ", "Ῥ", "ῲ", "ῳ",
  "ῴ", "ῶ", "ῷ", "Ὸ", "Ό", "Ὼ", "Ώ", "ῼ", "U+2071", "U+207F", "ₐ", "ₑ",
  "ₒ", "ₓ", "ₔ", "ₕ", "ₖ", "ₗ", "ₘ", "ₙ", "ₚ", "ₛ", "ₜ", "U+2102",
  "U+2107", "U+210A", "U+210B", "U+210C", "U+210D", "U+210E", "U+210F",
  "U+2110", "U+2111", "U+2112", "U+2113", "U+2115", "U+2119", "U+211A",
  "U+211B", "U+211C", "U+211D", "U+2124", "U+2126", "U+2128", "U+212A",
  "U+212B", "U+212C", "U+212D", "U+212F", "U+2130", "U+2131", "U+2132",
  "U+2133", "U+2134", "U+2139", "U+213C", "U+213D", "U+213E", "U+213F",
  "U+2145", "U+2146", "U+2147", "U+2148", "U+2149", "U+214E", "U+2160",
  "U+2161", "U+2162", "U+2163", "U+2164", "U+2165", "U+2166", "U+2167",
  "U+2168", "U+2169", "U+216A", "U+216B", "U+216C", "U+216D", "U+216E",
  "U+216F", "U+2170", "U+2171", "U+2172", "U+2173", "U+2174", "U+2175",
  "U+2176", "U+2177", "U+2178", "U+2179", "U+217A", "U+217B", "U+217C",
  "U+217D", "U+217E", "U+217F", "Ↄ", "ↄ", "Ⓐ", "Ⓑ", "Ⓒ", "Ⓓ", "Ⓔ", "Ⓕ",
  "Ⓖ", "Ⓗ", "Ⓘ", "Ⓙ", "Ⓚ", "Ⓛ", "Ⓜ", "Ⓝ", "Ⓞ", "Ⓟ", "Ⓠ", "Ⓡ", "Ⓢ", "Ⓣ",
  "Ⓤ", "Ⓥ", "Ⓦ", "Ⓧ", "Ⓨ", "Ⓩ", "ⓐ", "ⓑ", "ⓒ", "ⓓ", "ⓔ", "ⓕ", "ⓖ", "ⓗ",
  "ⓘ", "ⓙ", "ⓚ", "ⓛ", "ⓜ", "ⓝ", "ⓞ", "ⓟ", "ⓠ", "ⓡ", "ⓢ", "ⓣ", "ⓤ", "ⓥ",
  "ⓦ", "ⓧ", "ⓨ", "ⓩ", "U+2C00", "U+2C01", "U+2C02", "U+2C03", "U+2C04",
  "U+2C05", "U+2C06", "U+2C07", "U+2C08", "U+2C09", "U+2C0A", "U+2C0B",
  "U+2C0C", "U+2C0D", "U+2C0E", "U+2C0F", "U+2C10", "U+2C11", "U+2C12",
  "U+2C13", "U+2C14", "U+2C15", "U+2C16", "U+2C17", "U+2C18", "U+2C19",
  "U+2C1A", "U+2C1B", "U+2C1C", "U+2C1D", "U+2C1E", "U+2C1F", "U+2C20",
  "U+2C21", "U+2C22", "U+2C23", "U+2C24", "U+2C25", "U+2C26", "U+2C27",
  "U+2C28", "U+2C29", "U+2C2A", "U+2C2B", "U+2C2C", "U+2C2D", "U+2C2E",
  "U+2C2F", "U+2C30", "U+2C31", "U+2C32", "U+2C33", "U+2C34", "U+2C35",
  "U+2C36", "U+2C37", "U+2C38", "U+2C39", "U+2C3A", "U+2C3B", "U+2C3C",
  "U+2C3D", "U+2C3E", "U+2C3F", "U+2C40", "U+2C41", "U+2C42", "U+2C43",
  "U+2C44", "U+2C45", "U+2C46", "U+2C47", "U+2C48", "U+2C49", "U+2C4A",
  "U+2C4B", "U+2C4C", "U+2C4D", "U+2C4E", "U+2C4F", "U+2C50", "U+2C51",
  "U+2C52", "U+2C53", "U+2C54", "U+2C55", "U+2C56", "U+2C57", "U+2C58",
  "U+2C59", "U+2C5A", "U+2C5B", "U+2C5C", "U+2C5D", "U+2C5E", "U+2C5F",
  "U+2C60", "U+2C61", "U+2C62", "U+2C63", "U+2C64", "U+2C65", "U+2C66",
  "U+2C67", "U+2C68", "U+2C69", "U+2C6A", "U+2C6B", "U+2C6C", "U+2C6D",
  "U+2C6E", "U+2C6F", "U+2C70", "U+2C71", "U+2C72", "U+2C73", "U+2C74",
  "U+2C75", "U+2C76", "U+2C77", "U+2C78", "U+2C79", "U+2C7A", "U+2C7B",
  "U+2C7C", "U+2C7D", "U+2C7E", "U+2C7F", "Ⲁ", "ⲁ", "Ⲃ", "ⲃ", "Ⲅ", "ⲅ",
  "Ⲇ", "ⲇ", "Ⲉ", "ⲉ", "Ⲋ", "ⲋ", "Ⲍ", "ⲍ", "Ⲏ", "ⲏ", "Ⲑ", "ⲑ", "Ⲓ", "ⲓ",
  "Ⲕ", "ⲕ", "Ⲗ", "ⲗ", "Ⲙ", "ⲙ", "Ⲛ", "ⲛ", "Ⲝ", "ⲝ", "Ⲟ", "ⲟ", "Ⲡ", "ⲡ",
  "Ⲣ", "ⲣ", "Ⲥ", "ⲥ", "Ⲧ", "ⲧ", "Ⲩ", "ⲩ", "Ⲫ", "ⲫ", "Ⲭ", "ⲭ", "Ⲯ", "ⲯ",
  "Ⲱ", "ⲱ", "Ⲳ", "ⲳ", "Ⲵ", "ⲵ", "Ⲷ", "ⲷ", "Ⲹ", "ⲹ", "Ⲻ", "ⲻ", "Ⲽ", "ⲽ",
  "Ⲿ", "ⲿ", "Ⳁ", "ⳁ", "Ⳃ", "ⳃ", "Ⳅ", "ⳅ", "Ⳇ", "ⳇ", "Ⳉ", "ⳉ", "Ⳋ", "ⳋ",
  "Ⳍ", "ⳍ", "Ⳏ", "ⳏ", "Ⳑ", "ⳑ", "Ⳓ", "ⳓ", "Ⳕ", "ⳕ", "Ⳗ", "ⳗ", "Ⳙ", "ⳙ",
  "Ⳛ", "ⳛ", "Ⳝ", "ⳝ", "Ⳟ", "ⳟ", "Ⳡ", "ⳡ", "Ⳣ", "ⳣ", "ⳤ", "Ⳬ", "ⳬ", "Ⳮ",
  "ⳮ", "Ⳳ", "ⳳ", "U+2D00", "U+2D01", "U+2D02", "U+2D03", "U+2D04",
  "U+2D05", "U+2D06", "U+2D07", "U+2D08", "U+2D09", "U+2D0A", "U+2D0B",
  "U+2D0C", "U+2D0D", "U+2D0E", "U+2D0F", "U+2D10", "U+2D11", "U+2D12",
  "U+2D13", "U+2D14", "U+2D15", "U+2D16", "U+2D17", "U+2D18", "U+2D19",
  "U+2D1A", "U+2D1B", "U+2D1C", "U+2D1D", "U+2D1E", "U+2D1F", "U+2D20",
  "U+2D21", "U+2D22", "U+2D23", "U+2D24", "U+2D25", "U+2D27", "U+2D2D",
  "U+A640", "U+A641", "U+A642", "U+A643", "U+A644", "U+A645", "U+A646",
  "U+A647", "U+A648", "U+A649", "U+A64A", "U+A64B", "U+A64C", "U+A64D",
  "U+A64E", "U+A64F", "U+A650", "U+A651", "U+A652", "U+A653", "U+A654",
  "U+A655", "U+A656", "U+A657", "U+A658", "U+A659", "U+A65A", "U+A65B",
  "U+A65C", "U+A65D", "U+A65E", "U+A65F", "U+A660", "U+A661", "U+A662",
  "U+A663", "U+A664", "U+A665", "U+A666", "U+A667", "U+A668", "U+A669",
  "U+A66A", "U+A66B", "U+A66C", "U+A66D", "Ꚁ", "ꚁ", "Ꚃ", "ꚃ", "Ꚅ", "ꚅ",
  "Ꚇ", "ꚇ", "Ꚉ", "ꚉ", "Ꚋ", "ꚋ", "Ꚍ", "ꚍ", "Ꚏ", "ꚏ", "Ꚑ", "ꚑ", "Ꚓ", "ꚓ",
  "Ꚕ", "ꚕ", "Ꚗ", "ꚗ", "Ꚙ", "ꚙ", "Ꚛ", "ꚛ", "ꚜ", "ꚝ", "U+A722", "U+A723",
  "U+A724", "U+A725", "U+A726", "U+A727", "U+A728", "U+A729", "U+A72A",
  "U+A72B", "U+A72C", "U+A72D", "U+A72E", "U+A72F", "U+A730", "U+A731",
  "U+A732", "U+A733", "U+A734", "U+A735", "U+A736", "U+A737", "U+A738",
  "U+A739", "U+A73A", "U+A73B", "U+A73C", "U+A73D", "U+A73E", "U+A73F",
  "U+A740", "U+A741", "U+A742", "U+A743", "U+A744", "U+A745", "U+A746",
  "U+A747", "U+A748", "U+A749", "U+A74A", "U+A74B", "U+A74C", "U+A74D",
  "U+A74E", "U+A74F", "U+A750", "U+A751", "U+A752", "U+A753", "U+A754",
  "U+A755", "U+A756", "U+A757", "U+A758", "U+A759", "U+A75A", "U+A75B",
  "U+A75C", "U+A75D", "U+A75E", "U+A75F", "U+A760", "U+A761", "U+A762",
  "U+A763", "U+A764", "U+A765", "U+A766", "U+A767", "U+A768", "U+A769",
  "U+A76A", "U+A76B", "U+A76C", "U+A76D", "U+A76E", "U+A76F", "U+A770",
  "U+A771", "U+A772", "U+A773", "U+A774", "U+A775", "U+A776", "U+A777",
  "U+A778", "U+A779", "U+A77A", "U+A77B", "U+A77C", "U+A77D", "U+A77E",
  "U+A77F", "Ꞁ", "ꞁ", "Ꞃ", "ꞃ", "Ꞅ", "ꞅ", "Ꞇ", "ꞇ", "Ꞌ", "ꞌ", "Ɥ", "ꞎ",
  "Ꞑ", "ꞑ", "Ꞓ", "ꞓ", "ꞔ", "ꞕ", "Ꞗ", "ꞗ", "Ꞙ", "ꞙ", "Ꞛ", "ꞛ", "Ꞝ", "ꞝ",
  "Ꞟ", "ꞟ", "Ꞡ", "ꞡ", "Ꞣ", "ꞣ", "Ꞥ", "ꞥ", "Ꞧ", "ꞧ", "Ꞩ", "ꞩ", "Ɦ", "Ɜ",
  "Ɡ", "Ɬ", "Ɪ", "ꞯ", "Ʞ", "Ʇ", "Ʝ", "Ꭓ", "Ꞵ", "ꞵ", "Ꞷ", "ꞷ", "Ꞹ", "ꞹ",
  "Ꞻ", "ꞻ", "Ꞽ", "ꞽ", "Ꞿ", "ꞿ", "Ꟁ", "ꟁ", "Ꟃ", "ꟃ", "Ꞔ", "Ʂ", "Ᶎ", "Ꟈ",
  "ꟈ", "Ꟊ", "ꟊ", "Ꟑ", "ꟑ", "ꟓ", "ꟕ", "Ꟗ", "ꟗ", "Ꟙ", "ꟙ", "Ꟶ", "ꟶ", "ꟸ",
  "ꟹ", "ꟺ", "U+AB30", "U+AB31", "U+AB32", "U+AB33", "U+AB34", "U+AB35",
  "U+AB36", "U+AB37", "U+AB38", "U+AB39", "U+AB3A", "U+AB3B", "U+AB3C",
  "U+AB3D", "U+AB3E", "U+AB3F", "U+AB40", "U+AB41", "U+AB42", "U+AB43",
  "U+AB44", "U+AB45", "U+AB46", "U+AB47", "U+AB48", "U+AB49", "U+AB4A",
  "U+AB4B", "U+AB4C", "U+AB4D", "U+AB4E", "U+AB4F", "U+AB50", "U+AB51",
  "U+AB52", "U+AB53", "U+AB54", "U+AB55", "U+AB56", "U+AB57", "U+AB58",
  "U+AB59", "U+AB5A", "U+AB5C", "U+AB5D", "U+AB5E", "U+AB5F", "U+AB60",
  "U+AB61", "U+AB62", "U+AB63", "U+AB64", "U+AB65", "U+AB66", "U+AB67",
  "U+AB68", "U+AB70", "U+AB71", "U+AB72", "U+AB73", "U+AB74", "U+AB75",
  "U+AB76", "U+AB77", "U+AB78", "U+AB79", "U+AB7A", "U+AB7B", "U+AB7C",
  "U+AB7D", "U+AB7E", "U+AB7F", "ꮀ", "ꮁ", "ꮂ", "ꮃ", "ꮄ", "ꮅ", "ꮆ", "ꮇ",
  "ꮈ", "ꮉ", "ꮊ", "ꮋ", "ꮌ", "ꮍ", "ꮎ", "ꮏ", "ꮐ", "ꮑ", "ꮒ", "ꮓ", "ꮔ", "ꮕ",
  "ꮖ", "ꮗ", "ꮘ", "ꮙ", "ꮚ", "ꮛ", "ꮜ", "ꮝ", "ꮞ", "ꮟ", "ꮠ", "ꮡ", "ꮢ", "ꮣ",
  "ꮤ", "ꮥ", "ꮦ", "ꮧ", "ꮨ", "ꮩ", "ꮪ", "ꮫ", "ꮬ", "ꮭ", "ꮮ", "ꮯ", "ꮰ", "ꮱ",
  "ꮲ", "ꮳ", "ꮴ", "ꮵ", "ꮶ", "ꮷ", "ꮸ", "ꮹ", "ꮺ", "ꮻ", "ꮼ", "ꮽ", "ꮾ", "ꮿ",
  "U+FB00", "U+FB01", "U+FB02", "U+FB03", "U+FB04", "U+FB05", "U+FB06",
  "U+FB13", "U+FB14", "U+FB15", "U+FB16", "U+FB17", "U+FF21", "U+FF22",
  "U+FF23", "U+FF24", "U+FF25", "U+FF26", "U+FF27", "U+FF28", "U+FF29",
  "U+FF2A", "U+FF2B", "U+FF2C", "U+FF2D", "U+FF2E", "U+FF2F", "U+FF30",
  "U+FF31", "U+FF32", "U+FF33", "U+FF34", "U+FF35", "U+FF36", "U+FF37",
  "U+FF38", "U+FF39", "U+FF3A", "U+FF41", "U+FF42", "U+FF43", "U+FF44",
  "U+FF45", "U+FF46", "U+FF47", "U+FF48", "U+FF49", "U+FF4A", "U+FF4B",
  "U+FF4C", "U+FF4D", "U+FF4E", "U+FF4F", "U+FF50", "U+FF51", "U+FF52",
  "U+FF53", "U+FF54", "U+FF55", "U+FF56", "U+FF57", "U+FF58", "U+FF59",
  "U+FF5A", "U+10400", "U+10401", "U+10402", "U+10403", "U+10404",
  "U+10405", "U+10406", "U+10407", "U+10408", "U+10409", "U+1040A",
  "U+1040B", "U+1040C", "U+1040D", "U+1040E", "U+1040F", "U+10410",
  "U+10411", "U+10412", "U+10413", "U+10414", "U+10415", "U+10416",
  "U+10417", "U+10418", "U+10419", "U+1041A", "U+1041B", "U+1041C",
  "U+1041D", "U+1041E", "U+1041F", "U+10420", "U+10421", "U+10422",
  "U+10423", "U+10424", "U+10425", "U+10426", "U+10427", "U+10428",
  "U+10429", "U+1042A", "U+1042B", "U+1042C", "U+1042D", "U+1042E",
  "U+1042F", "U+10430", "U+10431", "U+10432", "U+10433", "U+10434",
  "U+10435", "U+10436", "U+10437", "U+10438", "U+10439", "U+1043A",
  "U+1043B", "U+1043C", "U+1043D", "U+1043E", "U+1043F", "U+10440",
  "U+10441", "U+10442", "U+10443", "U+10444", "U+10445", "U+10446",
  "U+10447", "U+10448", "U+10449", "U+1044A", "U+1044B", "U+1044C",
  "U+1044D", "U+1044E", "U+1044F", "U+104B0", "U+104B1", "U+104B2",
  "U+104B3", "U+104B4", "U+104B5", "U+104B6", "U+104B7", "U+104B8",
  "U+104B9", "U+104BA", "U+104BB", "U+104BC", "U+104BD", "U+104BE",
  "U+104BF", "U+104C0", "U+104C1", "U+104C2", "U+104C3", "U+104C4",
  "U+104C5", "U+104C6", "U+104C7", "U+104C8", "U+104C9", "U+104CA",
  "U+104CB", "U+104CC", "U+104CD", "U+104CE", "U+104CF", "U+104D0",
  "U+104D1", "U+104D2", "U+104D3", "U+104D8", "U+104D9", "U+104DA",
  "U+104DB", "U+104DC", "U+104DD", "U+104DE", "U+104DF", "U+104E0",
  "U+104E1", "U+104E2", "U+104E3", "U+104E4", "U+104E5", "U+104E6",
  "U+104E7", "U+104E8", "U+104E9", "U+104EA", "U+104EB", "U+104EC",
  "U+104ED", "U+104EE", "U+104EF", "U+104F0", "U+104F1", "U+104F2",
  "U+104F3", "U+104F4", "U+104F5", "U+104F6", "U+104F7", "U+104F8",
  "U+104F9", "U+104FA", "U+104FB", "U+10570", "U+10571", "U+10572",
  "U+10573", "U+10574", "U+10575", "U+10576", "U+10577", "U+10578",
  "U+10579", "U+1057A", "U+1057C", "U+1057D", "U+1057E", "U+1057F",
  "U+10580", "U+10581", "U+10582", "U+10583", "U+10584", "U+10585",
  "U+10586", "U+10587", "U+10588", "U+10589", "U+1058A", "U+1058C",
  "U+1058D", "U+1058E", "U+1058F", "U+10590", "U+10591", "U+10592",
  "U+10594", "U+10595", "U+10597", "U+10598", "U+10599", "U+1059A",
  "U+1059B", "U+1059C", "U+1059D", "U+1059E", "U+1059F", "U+105A0",
  "U+105A1", "U+105A3", "U+105A4", "U+105A5", "U+105A6", "U+105A7",
  "U+105A8", "U+105A9", "U+105AA", "U+105AB", "U+105AC", "U+105AD",
  "U+105AE", "U+105AF", "U+105B0", "U+105B1", "U+105B3", "U+105B4",
  "U+105B5", "U+105B6", "U+105B7", "U+105B8", "U+105B9", "U+105BB",
  "U+105BC", "U+10780", "U+10783", "U+10784", "U+10785", "U+10787",
  "U+10788", "U+10789", "U+1078A", "U+1078B", "U+1078C", "U+1078D",
  "U+1078E", "U+1078F", "U+10790", "U+10791", "U+10792", "U+10793",
  "U+10794", "U+10795", "U+10796", "U+10797", "U+10798", "U+10799",
  "U+1079A", "U+1079B", "U+1079C", "U+1079D", "U+1079E", "U+1079F",
  "U+107A0", "U+107A1", "U+107A2", "U+107A3", "U+107A4", "U+107A5",
  "U+107A6", "U+107A7", "U+107A8", "U+107A9", "U+107AA", "U+107AB",
  "U+107AC", "U+107AD", "U+107AE", "U+107AF", "U+107B0", "U+107B2",
  "U+107B3", "U+107B4", "U+107B5", "U+107B6", "U+107B7", "U+107B8",
  "U+107B9", "U+107BA", "U+10C80", "U+10C81", "U+10C82", "U+10C83",
  "U+10C84", "U+10C85", "U+10C86", "U+10C87", "U+10C88", "U+10C89",
  "U+10C8A", "U+10C8B", "U+10C8C", "U+10C8D", "U+10C8E", "U+10C8F",
  "U+10C90", "U+10C91", "U+10C92", "U+10C93", "U+10C94", "U+10C95",
  "U+10C96", "U+10C97", "U+10C98", "U+10C99", "U+10C9A", "U+10C9B",
  "U+10C9C", "U+10C9D", "U+10C9E", "U+10C9F", "U+10CA0", "U+10CA1",
  "U+10CA2", "U+10CA3", "U+10CA4", "U+10CA5", "U+10CA6", "U+10CA7",
  "U+10CA8", "U+10CA9", "U+10CAA", "U+10CAB", "U+10CAC", "U+10CAD",
  "U+10CAE", "U+10CAF", "U+10CB0", "U+10CB1", "U+10CB2", "U+10CC0",
  "U+10CC1", "U+10CC2", "U+10CC3", "U+10CC4", "U+10CC5", "U+10CC6",
  "U+10CC7", "U+10CC8", "U+10CC9", "U+10CCA", "U+10CCB", "U+10CCC",
  "U+10CCD", "U+10CCE", "U+10CCF", "U+10CD0", "U+10CD1", "U+10CD2",
  "U+10CD3", "U+10CD4", "U+10CD5", "U+10CD6", "U+10CD7", "U+10CD8",
  "U+10CD9", "U+10CDA", "U+10CDB", "U+10CDC", "U+10CDD", "U+10CDE",
  "U+10CDF", "U+10CE0", "U+10CE1", "U+10CE2", "U+10CE3", "U+10CE4",
  "U+10CE5", "U+10CE6", "U+10CE7", "U+10CE8", "U+10CE9", "U+10CEA",
  "U+10CEB", "U+10CEC", "U+10CED", "U+10CEE", "U+10CEF", "U+10CF0",
  "U+10CF1", "U+10CF2", "U+118A0", "U+118A1", "U+118A2", "U+118A3",
  "U+118A4", "U+118A5", "U+118A6", "U+118A7", "U+118A8", "U+118A9",
  "U+118AA", "U+118AB", "U+118AC", "U+118AD", "U+118AE", "U+118AF",
  "U+118B0", "U+118B1", "U+118B2", "U+118B3", "U+118B4", "U+118B5",
  "U+118B6", "U+118B7", "U+118B8", "U+118B9", "U+118BA", "U+118BB",
  "U+118BC", "U+118BD", "U+118BE", "U+118BF", "U+118C0", "U+118C1",
  "U+118C2", "U+118C3", "U+118C4", "U+118C5", "U+118C6", "U+118C7",
  "U+118C8", "U+118C9", "U+118CA", "U+118CB", "U+118CC", "U+118CD",
  "U+118CE", "U+118CF", "U+118D0", "U+118D1", "U+118D2", "U+118D3",
  "U+118D4", "U+118D5", "U+118D6", "U+118D7", "U+118D8", "U+118D9",
  "U+118DA", "U+118DB", "U+118DC", "U+118DD", "U+118DE", "U+118DF",
  "U+16E40", "U+16E41", "U+16E42", "U+16E43", "U+16E44", "U+16E45",
  "U+16E46", "U+16E47", "U+16E48", "U+16E49", "U+16E4A", "U+16E4B",
  "U+16E4C", "U+16E4D", "U+16E4E", "U+16E4F", "U+16E50", "U+16E51",
  "U+16E52", "U+16E53", "U+16E54", "U+16E55", "U+16E56", "U+16E57",
  "U+16E58", "U+16E59", "U+16E5A", "U+16E5B", "U+16E5C", "U+16E5D",
  "U+16E5E", "U+16E5F", "U+16E60", "U+16E61", "U+16E62", "U+16E63",
  "U+16E64", "U+16E65", "U+16E66", "U+16E67", "U+16E68", "U+16E69",
  "U+16E6A", "U+16E6B", "U+16E6C", "U+16E6D", "U+16E6E", "U+16E6F",
  "U+16E70", "U+16E71", "U+16E72", "U+16E73", "U+16E74", "U+16E75",
  "U+16E76", "U+16E77", "U+16E78", "U+16E79", "U+16E7A", "U+16E7B",
  "U+16E7C", "U+16E7D", "U+16E7E", "U+16E7F", "U+1D400", "U+1D401",
  "U+1D402", "U+1D403", "U+1D404", "U+1D405", "U+1D406", "U+1D407",
  "U+1D408", "U+1D409", "U+1D40A", "U+1D40B", "U+1D40C", "U+1D40D",
  "U+1D40E", "U+1D40F", "U+1D410", "U+1D411", "U+1D412", "U+1D413",
  "U+1D414", "U+1D415", "U+1D416", "U+1D417", "U+1D418", "U+1D419",
  "U+1D41A", "U+1D41B", "U+1D41C", "U+1D41D", "U+1D41E", "U+1D41F",
  "U+1D420", "U+1D421", "U+1D422", "U+1D423", "U+1D424", "U+1D425",
  "U+1D426", "U+1D427", "U+1D428", "U+1D429", "U+1D42A", "U+1D42B",
  "U+1D42C", "U+1D42D", "U+1D42E", "U+1D42F", "U+1D430", "U+1D431",
  "U+1D432", "U+1D433", "U+1D434", "U+1D435", "U+1D436", "U+1D437",
  "U+1D438", "U+1D439", "U+1D43A", "U+1D43B", "U+1D43C", "U+1D43D",
  "U+1D43E", "U+1D43F", "U+1D440", "U+1D441", "U+1D442", "U+1D443",
  "U+1D444", "U+1D445", "U+1D446", "U+1D447", "U+1D448", "U+1D449",
  "U+1D44A", "U+1D44B", "U+1D44C", "U+1D44D", "U+1D44E", "U+1D44F",
  "U+1D450", "U+1D451", "U+1D452", "U+1D453", "U+1D454", "U+1D456",
  "U+1D457", "U+1D458", "U+1D459", "U+1D45A", "U+1D45B", "U+1D45C",
  "U+1D45D", "U+1D45E", "U+1D45F", "U+1D460", "U+1D461", "U+1D462",
  "U+1D463", "U+1D464", "U+1D465", "U+1D466", "U+1D467", "U+1D468",
  "U+1D469", "U+1D46A", "U+1D46B", "U+1D46C", "U+1D46D", "U+1D46E",
  "U+1D46F", "U+1D470", "U+1D471", "U+1D472", "U+1D473", "U+1D474",
  "U+1D475", "U+1D476", "U+1D477", "U+1D478", "U+1D479", "U+1D47A",
  "U+1D47B", "U+1D47C", "U+1D47D", "U+1D47E", "U+1D47F", "U+1D480",
  "U+1D481", "U+1D482", "U+1D483", "U+1D484", "U+1D485", "U+1D486",
  "U+1D487", "U+1D488", "U+1D489", "U+1D48A", "U+1D48B", "U+1D48C",
  "U+1D48D", "U+1D48E", "U+1D48F", "U+1D490", "U+1D491", "U+1D492",
  "U+1D493", "U+1D494", "U+1D495", "U+1D496", "U+1D497", "U+1D498",
  "U+1D499", "U+1D49A", "U+1D49B", "U+1D49C", "U+1D49E", "U+1D49F",
  "U+1D4A2", "U+1D4A5", "U+1D4A6", "U+1D4A9", "U+1D4AA", "U+1D4AB",
  "U+1D4AC", "U+1D4AE", "U+1D4AF", "U+1D4B0", "U+1D4B1", "U+1D4B2",
  "U+1D4B3", "U+1D4B4", "U+1D4B5", "U+1D4B6", "U+1D4B7", "U+1D4B8",
  "U+1D4B9", "U+1D4BB", "U+1D4BD", "U+1D4BE", "U+1D4BF", "U+1D4C0",
  "U+1D4C1", "U+1D4C2", "U+1D4C3", "U+1D4C5", "U+1D4C6", "U+1D4C7",
  "U+1D4C8", "U+1D4C9", "U+1D4CA", "U+1D4CB", "U+1D4CC", "U+1D4CD",
  "U+1D4CE", "U+1D4CF", "U+1D4D0", "U+1D4D1", "U+1D4D2", "U+1D4D3",
  "U+1D4D4", "U+1D4D5", "U+1D4D6", "U+1D4D7", "U+1D4D8", "U+1D4D9",
  "U+1D4DA", "U+1D4DB", "U+1D4DC", "U+1D4DD", "U+1D4DE", "U+1D4DF",
  "U+1D4E0", "U+1D4E1", "U+1D4E2", "U+1D4E3", "U+1D4E4", "U+1D4E5",
  "U+1D4E6", "U+1D4E7", "U+1D4E8", "U+1D4E9", "U+1D4EA", "U+1D4EB",
  "U+1D4EC", "U+1D4ED", "U+1D4EE", "U+1D4EF", "U+1D4F0", "U+1D4F1",
  "U+1D4F2", "U+1D4F3", "U+1D4F4", "U+1D4F5", "U+1D4F6", "U+1D4F7",
  "U+1D4F8", "U+1D4F9", "U+1D4FA", "U+1D4FB", "U+1D4FC", "U+1D4FD",
  "U+1D4FE", "U+1D4FF", "U+1D500", "U+1D501", "U+1D502", "U+1D503",
  "U+1D504", "U+1D505", "U+1D507", "U+1D508", "U+1D509", "U+1D50A",
  "U+1D50D", "U+1D50E", "U+1D50F", "U+1D510", "U+1D511", "U+1D512",
  "U+1D513", "U+1D514", "U+1D516", "U+1D517", "U+1D518", "U+1D519",
  "U+1D51A", "U+1D51B", "U+1D51C", "U+1D51E", "U+1D51F", "U+1D520",
  "U+1D521", "U+1D522", "U+1D523", "U+1D524", "U+1D525", "U+1D526",
  "U+1D527", "U+1D528", "U+1D529", "U+1D52A", "U+1D52B", "U+1D52C",
  "U+1D52D", "U+1D52E", "U+1D52F", "U+1D530", "U+1D531", "U+1D532",
  "U+1D533", "U+1D534", "U+1D535", "U+1D536", "U+1D537", "U+1D538",
  "U+1D539", "U+1D53B", "U+1D53C", "U+1D53D", "U+1D53E", "U+1D540",
  "U+1D541", "U+1D542", "U+1D543", "U+1D544", "U+1D546", "U+1D54A",
  "U+1D54B", "U+1D54C", "U+1D54D", "U+1D54E", "U+1D54F", "U+1D550",
  "U+1D552", "U+1D553", "U+1D554", "U+1D555", "U+1D556", "U+1D557",
  "U+1D558", "U+1D559", "U+1D55A", "U+1D55B", "U+1D55C", "U+1D55D",
  "U+1D55E", "U+1D55F", "U+1D560", "U+1D561", "U+1D562", "U+1D563",
  "U+1D564", "U+1D565", "U+1D566", "U+1D567", "U+1D568", "U+1D569",
  "U+1D56A", "U+1D56B", "U+1D56C", "U+1D56D", "U+1D56E", "U+1D56F",
  "U+1D570", "U+1D571", "U+1D572", "U+1D573", "U+1D574", "U+1D575",
  "U+1D576", "U+1D577", "U+1D578", "U+1D579", "U+1D57A", "U+1D57B",
  "U+1D57C", "U+1D57D", "U+1D57E", "U+1D57F", "U+1D580", "U+1D581",
  "U+1D582", "U+1D583", "U+1D584", "U+1D585", "U+1D586", "U+1D587",
  "U+1D588", "U+1D589", "U+1D58A", "U+1D58B", "U+1D58C", "U+1D58D",
  "U+1D58E", "U+1D58F", "U+1D590", "U+1D591", "U+1D592", "U+1D593",
  "U+1D594", "U+1D595", "U+1D596", "U+1D597", "U+1D598", "U+1D599",
  "U+1D59A", "U+1D59B", "U+1D59C", "U+1D59D", "U+1D59E", "U+1D59F",
  "U+1D5A0", "U+1D5A1", "U+1D5A2", "U+1D5A3", "U+1D5A4", "U+1D5A5",
  "U+1D5A6", "U+1D5A7", "U+1D5A8", "U+1D5A9", "U+1D5AA", "U+1D5AB",
  "U+1D5AC", "U+1D5AD", "U+1D5AE", "U+1D5AF", "U+1D5B0", "U+1D5B1",
  "U+1D5B2", "U+1D5B3", "U+1D5B4", "U+1D5B5", "U+1D5B6", "U+1D5B7",
  "U+1D5B8", "U+1D5B9", "U+1D5BA", "U+1D5BB", "U+1D5BC", "U+1D5BD",
  "U+1D5BE", "U+1D5BF", "U+1D5C0", "U+1D5C1", "U+1D5C2", "U+1D5C3",
  "U+1D5C4", "U+1D5C5", "U+1D5C6", "U+1D5C7", "U+1D5C8", "U+1D5C9",
  "U+1D5CA", "U+1D5CB", "U+1D5CC", "U+1D5CD", "U+1D5CE", "U+1D5CF",
  "U+1D5D0", "U+1D5D1", "U+1D5D2", "U+1D5D3", "U+1D5D4", "U+1D5D5",
  "U+1D5D6", "U+1D5D7", "U+1D5D8", "U+1D5D9", "U+1D5DA", "U+1D5DB",
  "U+1D5DC", "U+1D5DD", "U+1D5DE", "U+1D5DF", "U+1D5E0", "U+1D5E1",
  "U+1D5E2", "U+1D5E3", "U+1D5E4", "U+1D5E5", "U+1D5E6", "U+1D5E7",
  "U+1D5E8", "U+1D5E9", "U+1D5EA", "U+1D5EB", "U+1D5EC", "U+1D5ED",
  "U+1D5EE", "U+1D5EF", "U+1D5F0", "U+1D5F1", "U+1D5F2", "U+1D5F3",
  "U+1D5F4", "U+1D5F5", "U+1D5F6", "U+1D5F7", "U+1D5F8", "U+1D5F9",
  "U+1D5FA", "U+1D5FB", "U+1D5FC", "U+1D5FD", "U+1D5FE", "U+1D5FF",
  "U+1D600", "U+1D601", "U+1D602", "U+1D603", "U+1D604", "U+1D605",
  "U+1D606", "U+1D607", "U+1D608", "U+1D609", "U+1D60A", "U+1D60B",
  "U+1D60C", "U+1D60D", "U+1D60E", "U+1D60F", "U+1D610", "U+1D611",
  "U+1D612", "U+1D613", "U+1D614", "U+1D615", "U+1D616", "U+1D617",
  "U+1D618", "U+1D619", "U+1D61A", "U+1D61B", "U+1D61C", "U+1D61D",
  "U+1D61E", "U+1D61F", "U+1D620", "U+1D621", "U+1D622", "U+1D623",
  "U+1D624", "U+1D625", "U+1D626", "U+1D627", "U+1D628", "U+1D629",
  "U+1D62A", "U+1D62B", "U+1D62C", "U+1D62D", "U+1D62E", "U+1D62F",
  "U+1D630", "U+1D631", "U+1D632", "U+1D633", "U+1D634", "U+1D635",
  "U+1D636", "U+1D637", "U+1D638", "U+1D639", "U+1D63A", "U+1D63B",
  "U+1D63C", "U+1D63D", "U+1D63E", "U+1D63F", "U+1D640", "U+1D641",
  "U+1D642", "U+1D643", "U+1D644", "U+1D645", "U+1D646", "U+1D647",
  "U+1D648", "U+1D649", "U+1D64A", "U+1D64B", "U+1D64C", "U+1D64D",
  "U+1D64E", "U+1D64F", "U+1D650", "U+1D651", "U+1D652", "U+1D653",
  "U+1D654", "U+1D655", "U+1D656", "U+1D657", "U+1D658", "U+1D659",
  "U+1D65A", "U+1D65B", "U+1D65C", "U+1D65D", "U+1D65E", "U+1D65F",
  "U+1D660", "U+1D661", "U+1D662", "U+1D663", "U+1D664", "U+1D665",
  "U+1D666", "U+1D667", "U+1D668", "U+1D669", "U+1D66A", "U+1D66B",
  "U+1D66C", "U+1D66D", "U+1D66E", "U+1D66F", "U+1D670", "U+1D671",
  "U+1D672", "U+1D673", "U+1D674", "U+1D675", "U+1D676", "U+1D677",
  "U+1D678", "U+1D679", "U+1D67A", "U+1D67B", "U+1D67C", "U+1D67D",
  "U+1D67E", "U+1D67F", "U+1D680", "U+1D681", "U+1D682", "U+1D683",
  "U+1D684", "U+1D685", "U+1D686", "U+1D687", "U+1D688", "U+1D689",
  "U+1D68A", "U+1D68B", "U+1D68C", "U+1D68D", "U+1D68E", "U+1D68F",
  "U+1D690", "U+1D691", "U+1D692", "U+1D693", "U+1D694", "U+1D695",
  "U+1D696", "U+1D697", "U+1D698", "U+1D699", "U+1D69A", "U+1D69B",
  "U+1D69C", "U+1D69D", "U+1D69E", "U+1D69F", "U+1D6A0", "U+1D6A1",
  "U+1D6A2", "U+1D6A3", "U+1D6A4", "U+1D6A5", "U+1D6A8", "U+1D6A9",
  "U+1D6AA", "U+1D6AB", "U+1D6AC", "U+1D6AD", "U+1D6AE", "U+1D6AF",
  "U+1D6B0", "U+1D6B1", "U+1D6B2", "U+1D6B3", "U+1D6B4", "U+1D6B5",
  "U+1D6B6", "U+1D6B7", "U+1D6B8", "U+1D6B9", "U+1D6BA", "U+1D6BB",
  "U+1D6BC", "U+1D6BD", "U+1D6BE", "U+1D6BF", "U+1D6C0", "U+1D6C2",
  "U+1D6C3", "U+1D6C4", "U+1D6C5", "U+1D6C6", "U+1D6C7", "U+1D6C8",
  "U+1D6C9", "U+1D6CA", "U+1D6CB", "U+1D6CC", "U+1D6CD", "U+1D6CE",
  "U+1D6CF", "U+1D6D0", "U+1D6D1", "U+1D6D2", "U+1D6D3", "U+1D6D4",
  "U+1D6D5", "U+1D6D6", "U+1D6D7", "U+1D6D8", "U+1D6D9", "U+1D6DA",
  "U+1D6DC", "U+1D6DD", "U+1D6DE", "U+1D6DF", "U+1D6E0", "U+1D6E1",
  "U+1D6E2", "U+1D6E3", "U+1D6E4", "U+1D6E5", "U+1D6E6", "U+1D6E7",
  "U+1D6E8", "U+1D6E9", "U+1D6EA", "U+1D6EB", "U+1D6EC", "U+1D6ED",
  "U+1D6EE", "U+1D6EF", "U+1D6F0", "U+1D6F1", "U+1D6F2", "U+1D6F3",
  "U+1D6F4", "U+1D6F5", "U+1D6F6", "U+1D6F7", "U+1D6F8", "U+1D6F9",
  "U+1D6FA", "U+1D6FC", "U+1D6FD", "U+1D6FE", "U+1D6FF", "U+1D700",
  "U+1D701", "U+1D702", "U+1D703", "U+1D704", "U+1D705", "U+1D706",
  "U+1D707", "U+1D708", "U+1D709", "U+1D70A", "U+1D70B", "U+1D70C",
  "U+1D70D", "U+1D70E", "U+1D70F", "U+1D710", "U+1D711", "U+1D712",
  "U+1D713", "U+1D714", "U+1D716", "U+1D717", "U+1D718", "U+1D719",
  "U+1D71A", "U+1D71B", "U+1D71C", "U+1D71D", "U+1D71E", "U+1D71F",
  "U+1D720", "U+1D721", "U+1D722", "U+1D723", "U+1D724", "U+1D725",
  "U+1D726", "U+1D727", "U+1D728", "U+1D729", "U+1D72A", "U+1D72B",
  "U+1D72C", "U+1D72D", "U+1D72E", "U+1D72F", "U+1D730", "U+1D731",
  "U+1D732", "U+1D733", "U+1D734", "U+1D736", "U+1D737", "U+1D738",
  "U+1D739", "U+1D73A", "U+1D73B", "U+1D73C", "U+1D73D", "U+1D73E",
  "U+1D73F", "U+1D740", "U+1D741", "U+1D742", "U+1D743", "U+1D744",
  "U+1D745", "U+1D746", "U+1D747", "U+1D748", "U+1D749", "U+1D74A",
  "U+1D74B", "U+1D74C", "U+1D74D", "U+1D74E", "U+1D750", "U+1D751",
  "U+1D752", "U+1D753", "U+1D754", "U+1D755", "U+1D756", "U+1D757",
  "U+1D758", "U+1D759", "U+1D75A", "U+1D75B", "U+1D75C", "U+1D75D",
  "U+1D75E", "U+1D75F", "U+1D760", "U+1D761", "U+1D762", "U+1D763",
  "U+1D764", "U+1D765", "U+1D766", "U+1D767", "U+1D768", "U+1D769",
  "U+1D76A", "U+1D76B", "U+1D76C", "U+1D76D", "U+1D76E", "U+1D770",
  "U+1D771", "U+1D772", "U+1D773", "U+1D774", "U+1D775", "U+1D776",
  "U+1D777", "U+1D778", "U+1D779", "U+1D77A", "U+1D77B", "U+1D77C",
  "U+1D77D", "U+1D77E", "U+1D77F", "U+1D780", "U+1D781", "U+1D782",
  "U+1D783", "U+1D784", "U+1D785", "U+1D786", "U+1D787", "U+1D788",
  "U+1D78A", "U+1D78B", "U+1D78C", "U+1D78D", "U+1D78E", "U+1D78F",
  "U+1D790", "U+1D791", "U+1D792", "U+1D793", "U+1D794", "U+1D795",
  "U+1D796", "U+1D797", "U+1D798", "U+1D799", "U+1D79A", "U+1D79B",
  "U+1D79C", "U+1D79D", "U+1D79E", "U+1D79F", "U+1D7A0", "U+1D7A1",
  "U+1D7A2", "U+1D7A3", "U+1D7A4", "U+1D7A5", "U+1D7A6", "U+1D7A7",
  "U+1D7A8", "U+1D7AA", "U+1D7AB", "U+1D7AC", "U+1D7AD", "U+1D7AE",
  "U+1D7AF", "U+1D7B0", "U+1D7B1", "U+1D7B2", "U+1D7B3", "U+1D7B4",
  "U+1D7B5", "U+1D7B6", "U+1D7B7", "U+1D7B8", "U+1D7B9", "U+1D7BA",
  "U+1D7BB", "U+1D7BC", "U+1D7BD", "U+1D7BE", "U+1D7BF", "U+1D7C0",
  "U+1D7C1", "U+1D7C2", "U+1D7C4", "U+1D7C5", "U+1D7C6", "U+1D7C7",
  "U+1D7C8", "U+1D7C9", "U+1D7CA", "U+1D7CB", "U+1DF00", "U+1DF01",
  "U+1DF02", "U+1DF03", "U+1DF04", "U+1DF05", "U+1DF06", "U+1DF07",
  "U+1DF08", "U+1DF09", "U+1DF0B", "U+1DF0C", "U+1DF0D", "U+1DF0E",
  "U+1DF0F", "U+1DF10", "U+1DF11", "U+1DF12", "U+1DF13", "U+1DF14",
  "U+1DF15", "U+1DF16", "U+1DF17", "U+1DF18", "U+1DF19", "U+1DF1A",
  "U+1DF1B", "U+1DF1C", "U+1DF1D", "U+1DF1E", "U+1E900", "U+1E901",
  "U+1E902", "U+1E903", "U+1E904", "U+1E905", "U+1E906", "U+1E907",
  "U+1E908", "U+1E909", "U+1E90A", "U+1E90B", "U+1E90C", "U+1E90D",
  "U+1E90E", "U+1E90F", "U+1E910", "U+1E911", "U+1E912", "U+1E913",
  "U+1E914", "U+1E915", "U+1E916", "U+1E917", "U+1E918", "U+1E919",
  "U+1E91A", "U+1E91B", "U+1E91C", "U+1E91D", "U+1E91E", "U+1E91F",
  "U+1E920", "U+1E921", "U+1E922", "U+1E923", "U+1E924", "U+1E925",
  "U+1E926", "U+1E927", "U+1E928", "U+1E929", "U+1E92A", "U+1E92B",
  "U+1E92C", "U+1E92D", "U+1E92E", "U+1E92F", "U+1E930", "U+1E931",
  "U+1E932", "U+1E933", "U+1E934", "U+1E935", "U+1E936", "U+1E937",
  "U+1E938", "U+1E939", "U+1E93A", "U+1E93B", "U+1E93C", "U+1E93D",
  "U+1E93E", "U+1E93F", "U+1E940", "U+1E941", "U+1E942", "U+1E943",
  "U+1F130", "U+1F131", "U+1F132", "U+1F133", "U+1F134", "U+1F135",
  "U+1F136", "U+1F137", "U+1F138", "U+1F139", "U+1F13A", "U+1F13B",
  "U+1F13C", "U+1F13D", "U+1F13E", "U+1F13F", "U+1F140", "U+1F141",
  "U+1F142", "U+1F143", "U+1F144", "U+1F145", "U+1F146", "U+1F147",
  "U+1F148", "U+1F149", "U+1F150", "U+1F151", "U+1F152", "U+1F153",
  "U+1F154", "U+1F155", "U+1F156", "U+1F157", "U+1F158", "U+1F159",
  "U+1F15A", "U+1F15B", "U+1F15C", "U+1F15D", "U+1F15E", "U+1F15F",
  "U+1F160", "U+1F161", "U+1F162", "U+1F163", "U+1F164", "U+1F165",
  "U+1F166", "U+1F167", "U+1F168", "U+1F169", "U+1F170", "U+1F171",
  "U+1F172", "U+1F173", "U+1F174", "U+1F175", "U+1F176", "U+1F177",
  "U+1F178", "U+1F179", "U+1F17A", "U+1F17B", "U+1F17C", "U+1F17D",
  "U+1F17E", "U+1F17F", "U+1F180", "U+1F181", "U+1F182", "U+1F183",
  "U+1F184", "U+1F185", "U+1F186", "U+1F187", "U+1F188", "U+1F189"}
\* the characters the final-sigma rule of str.lower() looks through
CaseIgnorable == {
  "'", ".", ":", "^", "U+0060", "¨", "­", "¯", "´", "·", "¸", "ʰ", "ʱ",
  "ʲ", "ʳ", "ʴ", "ʵ", "ʶ", "ʷ", "ʸ", "ʹ", "ʺ", "ʻ", "ʼ", "ʽ", "ʾ", "ʿ",
  "ˀ", "ˁ", "˂", "˃", "˄", "˅", "ˆ", "ˇ", "ˈ", "ˉ", "ˊ", "ˋ", "ˌ", "ˍ",
  "ˎ", "ˏ", "ː", "ˑ", "˒", "˓", "˔", "˕", "˖", "˗", "˘", "˙", "˚", "˛",
  "˜", "˝", "˞", "˟", "ˠ", "ˡ", "ˢ", "ˣ", "ˤ", "˥", "˦", "˧", "˨", "˩",
  "˪", "˫", "ˬ", "˭", "ˮ", "˯", "˰", "˱", "˲", "˳", "˴", "˵", "˶", "˷",
  "˸", "˹", "˺", "˻", "˼", "˽", "˾", "˿", "U+0300", "U+0301", "U+0302",
  "U+0303", "U+0304", "U+0305", "U+0306", "U+0307", "U+0308", "U+0309",
  "U+030A", "U+030B", "U+030C", "U+030D", "U+030E", "U+030F", "U+0310",
  "U+0311", "U+0312", "U+0313", "U+0314", "U+0315", "U+0316", "U+0317",
  "U+0318", "U+0319", "U+031A", "U+031B", "U+031C", "U+031D", "U+031E",
  "U+031F", "U+0320", "U+0321", "U+0322", "U+0323", "U+0324", "U+0325",
  "U+0326", "U+0327", "U+0328", "U+0329", "U+032A", "U+032B", "U+032C",
  "U+032D", "U+032E", "U+032F", "U+0330", "U+0331", "U+0332", "U+0333",
  "U+0334", "U+0335", "U+0336", "U+0337", "U+0338", "U+0339", "U+033A",
  "U+033B", "U+033C", "U+033D", "U+033E", "U+033F", "U+0340", "U+0341",
  "U+0342", "U+0343", "U+0344", "U+0345", "U+0346", "U+0347", "U+0348",
  "U+0349", "U+034A", "U+034B", "U+034C", "U+034D", "U+034E", "U+034F",
  "U+0350", "U+0351", "U+0352", "U+0353", "U+0354", "U+0355", "U+0356",
  "U+0357", "U+0358", "U+0359", "U+035A", "U+035B", "U+035C", "U+035D",
  "U+035E", "U+035F", "U+0360", "U+0361", "U+0362", "U+0363", "U+0364",
  "U+0365", "U+0366", "U+0367", "U+0368", "U+0369", "U+036A", "U+036B",
  "U+036C", "U+036D", "U+036E", "U+036F", "U+0374", "U+0375", "U+037A",
  "΄", "΅", "·", "҃", "҄", "҅", "҆", "҇", "҈", "҉", "U+0559", "U+055F",
  "֑", "֒", "֓", "֔", "֕", "֖", "֗", "֘", "֙", "֚", "֛", "֜", "֝", "֞",
  "֟", "֠", "֡", "֢", "֣", "֤", "֥", "֦", "֧", "֨", "֩", "֪", "֫", "֬",
  "֭", "֮", "֯", "ְ", "ֱ", "ֲ", "ֳ", "ִ", "ֵ", "ֶ", "ַ", "ָ", "ֹ", "ֺ",
  "ֻ", "ּ", "ֽ", "ֿ", "ׁ", "ׂ", "ׄ", "ׅ", "ׇ", "״", "U+0600", "U+0601",
  "U+0602", "U+0603", "U+0604", "U+0605", "U+0610", "U+0611", "U+0612",
  "U+0613", "U+0614", "U+0615", "U+0616", "U+0617", "U+0618", "U+0619",
  "U+061A", "U+061C", "U+0640", "U+064B", "U+064C", "U+064D", "U+064E",
  "U+064F", "U+0650", "U+0651", "U+0652", "U+0653", "U+0654", "U+0655",
  "U+0656", "U+0657", "U+0658", "U+0659", "U+065A", "U+065B", "U+065C",
  "U+065D", "U+065E", "U+065F", "U+0670", "ۖ", "ۗ", "ۘ", "ۙ", "ۚ", "ۛ",
  "ۜ", "۝", "۟", "۠", "ۡ", "ۢ", "ۣ", "ۤ", "ۥ", "ۦ", "ۧ", "ۨ", "۪", "۫",
  "۬", "ۭ", "U+070F", "U+0711", "U+0730", "U+0731", "U+0732", "U+0733",
  "U+0734", "U+0735", "U+0736", "U+0737", "U+0738", "U+0739", "U+073A",
  "U+073B", "U+073C", "U+073D", "U+073E", "U+073F", "U+0740", "U+0741",
  "U+0742", "U+0743", "U+0744", "U+0745", "U+0746", "U+0747", "U+0748",
  "U+0749", "U+074A", "ަ", "ާ", "ި", "ީ", "ު", "ޫ", "ެ", "ޭ", "ޮ", "ޯ",
  "ް", "߫", "߬", "߭", "߮", "߯", "߰", "߱", "߲", "߳", "ߴ", "ߵ", "ߺ", "߽",
  "U+0816", "U+0817", "U+0818", "U+0819", "U+081A", "U+081B", "U+081C",
  "U+081D", "U+081E", "U+081F", "U+0820", "U+0821", "U+0822", "U+0823",
  "U+0824", "U+0825", "U+0826", "U+0827", "U+0828", "U+0829", "U+082A",
  "U+082B", "U+082C", "U+082D", "U+0859", "U+085A", "U+085B", "࢈", "࢐",
  "࢑", "࢘", "࢙", "࢚", "࢛", "࢜", "࢝", "࢞", "࢟", "ࣉ", "࣊", "࣋", "࣌", "࣍",
  "࣎", "࣏", "࣐", "࣑", "࣒", "࣓", "ࣔ", "ࣕ", "ࣖ", "ࣗ", "ࣘ", "ࣙ", "ࣚ", "ࣛ",
  "ࣜ", "ࣝ", "ࣞ", "ࣟ", "࣠", "࣡", "࣢", "ࣣ", "ࣤ", "ࣥ", "ࣦ", "ࣧ", "ࣨ", "ࣩ",
  "࣪", "࣫", "࣬", "࣭", "࣮", "࣯", "ࣰ", "ࣱ", "ࣲ", "ࣳ", "ࣴ", "ࣵ", "ࣶ", "ࣷ",
  "ࣸ", "ࣹ", "ࣺ", "ࣻ", "ࣼ", "ࣽ", "ࣾ", "ࣿ", "U+0900", "U+0901", "U+0902",
  "U+093A", "U+093C", "U+0941", "U+0942", "U+0943", "U+0944", "U+0945",
  "U+0946", "U+0947", "U+0948", "U+094D", "U+0951", "U+0952", "U+0953",
  "U+0954", "U+0955", "U+0956", "U+0957", "U+0962", "U+0963", "U+0971",
  "ঁ", "়", "ু", "ূ", "ৃ", "ৄ", "্", "ৢ", "ৣ", "৾", "U+0A01", "U+0A02",
  "U+0A3C", "U+0A41", "U+0A42", "U+0A47", "U+0A48", "U+0A4B", "U+0A4C",
  "U+0A4D", "U+0A51", "U+0A70", "U+0A71", "U+0A75", "ઁ", "ં", "઼", "ુ",
  "ૂ", "ૃ", "ૄ", "ૅ", "ે", "ૈ", "્", "ૢ", "ૣ", "ૺ", "ૻ", "ૼ", "૽", "૾",
  "૿", "U+0B01", "U+0B3C", "U+0B3F", "U+0B41", "U+0B42", "U+0B43",
  "U+0B44", "U+0B4D", "U+0B55", "U+0B56", "U+0B62", "U+0B63", "ஂ", "ீ",
  "்", "U+0C00", "U+0C04", "U+0C3C", "U+0C3E", "U+0C3F", "U+0C40",
  "U+0C46", "U+0C47", "U+0C48", "U+0C4A", "U+0C4B", "U+0C4C", "U+0C4D",
  "U+0C55", "U+0C56", "U+0C62", "U+0C63", "ಁ", "಼", "ಿ", "ೆ", "ೌ", "್",
  "ೢ", "ೣ", "U+0D00", "U+0D01", "U+0D3B", "U+0D3C", "U+0D41", "U+0D42",
  "U+0D43", "U+0D44", "U+0D4D", "U+0D62", "U+0D63", "ඁ", "්", "ි", "ී",
  "ු", "ූ", "U+0E31", "U+0E34", "U+0E35", "U+0E36", "U+0E37", "U+0E38",
  "U+0E39", "U+0E3A", "U+0E46", "U+0E47", "U+0E48", "U+0E49", "U+0E4A",
  "U+0E4B", "U+0E4C", "U+0E4D", "U+0E4E", "ັ", "ິ", "ີ", "ຶ", "ື", "ຸ",
  "ູ", "຺", "ົ", "ຼ", "ໆ", "່", "້", "໊", "໋", "໌", "ໍ", "U+0F18",
  "U+0F19", "U+0F35", "U+0F37", "U+0F39", "U+0F71", "U+0F72", "U+0F73",
  "U+0F74", "U+0F75", "U+0F76", "U+0F77", "U+0F78", "U+0F79", "U+0F7A",
  "U+0F7B", "U+0F7C", "U+0F7D", "U+0F7E", "ྀ", "ཱྀ", "ྂ", "ྃ", "྄", "྆",
  "྇", "ྍ", "ྎ", "ྏ", "ྐ", "ྑ", "ྒ", "ྒྷ", "ྔ", "ྕ", "ྖ", "ྗ", "ྙ", "ྚ",
  "ྛ", "ྜ", "ྜྷ", "ྞ", "ྟ", "ྠ", "ྡ", "ྡྷ", "ྣ", "ྤ", "ྥ", "ྦ", "ྦྷ", "ྨ",
  "ྩ", "ྪ", "ྫ", "ྫྷ", "ྭ", "ྮ", "ྯ", "ྰ", "ྱ", "ྲ", "ླ", "ྴ", "ྵ", "ྶ",
  "ྷ", "ྸ", "ྐྵ", "ྺ", "ྻ", "ྼ", "࿆", "U+102D", "U+102E", "U+102F",
  "U+1030", "U+1032", "U+1033", "U+1034", "U+1035", "U+1036", "U+1037",
  "U+1039", "U+103A", "U+103D", "U+103E", "U+1058", "U+1059", "U+105E",
  "U+105F", "U+1060", "U+1071", "U+1072", "U+1073", "U+1074", "ႂ", "ႅ",
  "ႆ", "ႍ", "ႝ", "ჼ", "U+135D", "U+135E", "U+135F", "U+1712", "U+1713",
  "U+1714", "U+1732", "U+1733", "U+1752", "U+1753", "U+1772", "U+1773",
  "឴", "឵", "ិ", "ី", "ឹ", "ឺ", "ុ", "ូ", "ួ", "ំ", "៉", "៊", "់", "៌",
  "៍", "៎", "៏", "័", "៑", "្", "៓", "ៗ", "៝", "U+180B", "U+180C",
  "U+180D", "U+180E", "U+180F", "U+1843", "ᢅ", "ᢆ", "ᢩ", "U+1920",
  "U+1921", "U+1922", "U+1927", "U+1928", "U+1932", "U+1939", "U+193A",
  "U+193B", "U+1A17", "U+1A18", "U+1A1B", "U+1A56", "U+1A58", "U+1A59",
  "U+1A5A", "U+1A5B", "U+1A5C", "U+1A5D", "U+1A5E", "U+1A60", "U+1A62",
  "U+1A65", "U+1A66", "U+1A67", "U+1A68", "U+1A69", "U+1A6A", "U+1A6B",
  "U+1A6C", "U+1A73", "U+1A74", "U+1A75", "U+1A76", "U+1A77", "U+1A78",
  "U+1A79", "U+1A7A", "U+1A7B", "U+1A7C", "U+1A7F", "ᪧ", "᪰", "᪱", "᪲",
  "᪳", "᪴", "᪵", "᪶", "᪷", "᪸", "᪹", "᪺", "᪻", "᪼", "᪽", "᪾", "ᪿ", "ᫀ",
  "᫁", "᫂", "᫃", "᫄", "᫅", "᫆", "᫇", "᫈", "᫉", "᫊", "᫋", "ᫌ", "ᫍ", "ᫎ",
  "U+1B00", "U+1B01", "U+1B02", "U+1B03", "U+1B34", "U+1B36", "U+1B37",
  "U+1B38", "U+1B39", "U+1B3A", "U+1B3C", "U+1B42", "U+1B6B", "U+1B6C",
  "U+1B6D", "U+1B6E", "U+1B6F", "U+1B70", "U+1B71", "U+1B72", "U+1B73",
  "ᮀ", "ᮁ", "ᮢ", "ᮣ", "ᮤ", "ᮥ", "ᮨ", "ᮩ", "᮫", "ᮬ", "ᮭ", "᯦", "ᯨ", "ᯩ",
  "ᯭ", "ᯯ", "ᯰ", "ᯱ", "U+1C2C", "U+1C2D", "U+1C2E", "U+1C2F", "U+1C30",
  "U+1C31", "U+1C32", "U+1C33", "U+1C36", "U+1C37", "U+1C78", "U+1C79",
  "U+1C7A", "U+1C7B", "U+1C7C", "U+1C7D", "᳐", "᳑", "᳒", "᳔", "᳕", "᳖",
  "᳗", "᳘", "᳙", "᳚", "᳛", "᳜", "᳝", "᳞", "᳟", "᳠", "᳢", "᳣", "᳤", "᳥",
  "᳦", "᳧", "᳨", "᳭", "᳴", "᳸", "᳹", "U+1D2C", "U+1D2D", "U+1D2E",
  "U+1D2F", "U+1D30", "U+1D31", "U+1D32", "U+1D33", "U+1D34", "U+1D35",
  "U+1D36", "U+1D37", "U+1D38", "U+1D39", "U+1D3A", "U+1D3B", "U+1D3C",
  "U+1D3D", "U+1D3E", "U+1D3F", "U+1D40", "U+1D41", "U+1D42", "U+1D43",
  "U+1D44", "U+1D45", "U+1D46", "U+1D47", "U+1D48", "U+1D49", "U+1D4A",
  "U+1D4B", "U+1D4C", "U+1D4D", "U+1D4E", "U+1D4F", "U+1D50", "U+1D51",
  "U+1D52", "U+1D53", "U+1D54", "U+1D55", "U+1D56", "U+1D57", "U+1D58",
  "U+1D59", "U+1D5A", "U+1D5B", "U+1D5C", "U+1D5D", "U+1D5E", "U+1D5F",
  "U+1D60", "U+1D61", "U+1D62", "U+1D63", "U+1D64", "U+1D65", "U+1D66",
  "U+1D67", "U+1D68", "U+1D69", "U+1D6A", "U+1D78", "ᶛ", "ᶜ", "ᶝ", "ᶞ",
  "ᶟ", "ᶠ", "ᶡ", "ᶢ", "ᶣ", "ᶤ", "ᶥ", "ᶦ", "ᶧ", "ᶨ", "ᶩ", "ᶪ", "ᶫ", "ᶬ",
  "ᶭ", "ᶮ", "ᶯ", "ᶰ", "ᶱ", "ᶲ", "ᶳ", "ᶴ", "ᶵ", "ᶶ", "ᶷ", "ᶸ", "ᶹ", "ᶺ",
  "ᶻ", "ᶼ", "ᶽ", "ᶾ", "ᶿ", "᷀", "᷁", "᷂", "᷃", "᷄", "᷅", "᷆", "᷇", "᷈",
  "᷉", "᷊", "᷋", "᷌", "᷍", "᷎", "᷏", "᷐", "᷑", "᷒", "ᷓ", "ᷔ", "ᷕ", "ᷖ",
  "ᷗ", "ᷘ", "ᷙ", "ᷚ", "ᷛ", "ᷜ", "ᷝ", "ᷞ", "ᷟ", "ᷠ", "ᷡ", "ᷢ", "ᷣ", "ᷤ",
  "ᷥ", "ᷦ", "ᷧ", "ᷨ", "ᷩ", "ᷪ", "ᷫ", "ᷬ", "ᷭ", "ᷮ", "ᷯ", "ᷰ", "ᷱ", "ᷲ",
  "ᷳ", "ᷴ", "᷵", "᷶", "᷷", "᷸", "᷹", "᷺", "᷻", "᷼", "᷽", "᷾", "᷿", "᾽",
  "᾿", "῀", "῁", "῍", "῎", "῏", "῝", "῞", "῟", "῭", "΅", "`", "´", "῾",
  "U+200B", "U+200C", "U+200D", "U+200E", "U+200F", "U+2018", "U+2019",
  "U+2024", "U+2027", "U+202A", "U+202B", "U+202C", "U+202D", "U+202E",
  "U+2060", "U+2061", "U+2062", "U+2063", "U+2064", "U+2066", "U+2067",
  "U+2068", "U+2069", "U+206A", "U+206B", "U+206C", "U+206D", "U+206E",
  "U+206F", "U+2071", "U+207F", "ₐ", "ₑ", "ₒ", "ₓ", "ₔ", "ₕ", "ₖ", "ₗ",
  "ₘ", "ₙ", "ₚ", "ₛ", "ₜ", "⃐", "⃑", "⃒", "⃓", "⃔", "⃕", "⃖", "⃗", "⃘",
  "⃙", "⃚", "⃛", "⃜", "⃝", "⃞", "⃟", "⃠", "⃡", "⃢", "⃣", "⃤", "⃥", "⃦",
  "⃧", "⃨", "⃩", "⃪", "⃫", "⃬", "⃭", "⃮", "⃯", "⃰", "U+2C7C", "U+2C7D",
  "⳯", "⳰", "⳱", "U+2D6F", "U+2D7F", "ⷠ", "ⷡ", "ⷢ", "ⷣ", "ⷤ", "ⷥ", "ⷦ",
  "ⷧ", "ⷨ", "ⷩ", "ⷪ", "ⷫ", "ⷬ", "ⷭ", "ⷮ", "ⷯ", "ⷰ", "ⷱ", "ⷲ", "ⷳ", "ⷴ",
  "ⷵ", "ⷶ", "ⷷ", "ⷸ", "ⷹ", "ⷺ", "ⷻ", "ⷼ", "ⷽ", "ⷾ", "ⷿ", "U+2E2F",
  "U+3005", "U+302A", "U+302B", "U+302C", "U+302D", "U+3031", "U+3032",
  "U+3033", "U+3034", "U+3035", "U+303B", "゙", "゚", "゛", "゜", "ゝ", "ゞ",
  "ー", "ヽ", "ヾ", "U+A015", "ꓸ", "ꓹ", "ꓺ", "ꓻ", "ꓼ", "ꓽ", "U+A60C",
  "U+A66F", "U+A670", "U+A671", "U+A672", "U+A674", "U+A675", "U+A676",
  "U+A677", "U+A678", "U+A679", "U+A67A", "U+A67B", "U+A67C", "U+A67D",
  "U+A67F", "ꚜ", "ꚝ", "ꚞ", "ꚟ", "꛰", "꛱", "U+A700", "U+A701", "U+A702",
  "U+A703", "U+A704", "U+A705", "U+A706", "U+A707", "U+A708", "U+A709",
  "U+A70A", "U+A70B", "U+A70C", "U+A70D", "U+A70E", "U+A70F", "U+A710",
  "U+A711", "U+A712", "U+A713", "U+A714", "U+A715", "U+A716", "U+A717",
  "U+A718", "U+A719", "U+A71A", "U+A71B", "U+A71C", "U+A71D", "U+A71E",
  "U+A71F", "U+A720", "U+A721", "U+A770", "ꞈ", "꞉", "꞊", "ꟲ", "ꟳ", "ꟴ",
  "ꟸ", "ꟹ", "U+A802", "U+A806", "U+A80B", "U+A825", "U+A826", "U+A82C",
  "꣄", "ꣅ", "꣠", "꣡", "꣢", "꣣", "꣤", "꣥", "꣦", "꣧", "꣨", "꣩", "꣪", "꣫",
  "꣬", "꣭", "꣮", "꣯", "꣰", "꣱", "ꣿ", "U+A926", "U+A927", "U+A928",
  "U+A929", "U+A92A", "U+A92B", "U+A92C", "U+A92D", "U+A947", "U+A948",
  "U+A949", "U+A94A", "U+A94B", "U+A94C", "U+A94D", "U+A94E", "U+A94F",
  "U+A950", "U+A951", "ꦀ", "ꦁ", "ꦂ", "꦳", "ꦶ", "ꦷ", "ꦸ", "ꦹ", "ꦼ", "ꦽ",
  "ꧏ", "ꧥ", "ꧦ", "U+AA29", "U+AA2A", "U+AA2B", "U+AA2C", "U+AA2D",
  "U+AA2E", "U+AA31", "U+AA32", "U+AA35", "U+AA36", "U+AA43", "U+AA4C",
  "U+AA70", "U+AA7C", "ꪰ", "ꪲ", "ꪳ", "ꪴ", "ꪷ", "ꪸ", "ꪾ", "꪿", "꫁", "ꫝ",
  "ꫬ", "ꫭ", "ꫳ", "ꫴ", "꫶", "U+AB5B", "U+AB5C", "U+AB5D", "U+AB5E",
  "U+AB5F", "U+AB69", "U+AB6A", "U+AB6B", "ꯥ", "ꯨ", "꯭", "U+FB1E", "﮲",
  "﮳", "﮴", "﮵", "﮶", "﮷", "﮸", "﮹", "﮺", "﮻", "﮼", "﮽", "﮾", "﮿", "﯀",
  "﯁", "﯂", "U+FE00", "U+FE01", "U+FE02", "U+FE03", "U+FE04", "U+FE05",
  "U+FE06", "U+FE07", "U+FE08", "U+FE09", "U+FE0A", "U+FE0B", "U+FE0C",
  "U+FE0D", "U+FE0E", "U+FE0F", "U+FE13", "U+FE20", "U+FE21", "U+FE22",
  "U+FE23", "U+FE24", "U+FE25", "U+FE26", "U+FE27", "U+FE28", "U+FE29",
  "U+FE2A", "U+FE2B", "U+FE2C", "U+FE2D", "U+FE2E", "U+FE2F", "U+FE52",
  "U+FE55", "﻿", "U+FF07", "U+FF0E", "U+FF1A", "U+FF3E", "U+FF40",
  "U+FF70", "ﾞ", "ﾟ", "￣", "￹", "￺", "￻", "U+101FD", "U+102E0", "U+10376",
  "U+10377", "U+10378", "U+10379", "U+1037A", "U+10780", "U+10781",
  "U+10782", "U+10783", "U+10784", "U+10785", "U+10787", "U+10788",
  "U+10789", "U+1078A", "U+1078B", "U+1078C", "U+1078D", "U+1078E",
  "U+1078F", "U+10790", "U+10791", "U+10792", "U+10793", "U+10794",
  "U+10795", "U+10796", "U+10797", "U+10798", "U+10799", "U+1079A",
  "U+1079B", "U+1079C", "U+1079D", "U+1079E", "U+1079F", "U+107A0",
  "U+107A1", "U+107A2", "U+107A3", "U+107A4", "U+107A5", "U+107A6",
  "U+107A7", "U+107A8", "U+107A9", "U+107AA", "U+107AB", "U+107AC",
  "U+107AD", "U+107AE", "U+107AF", "U+107B0", "U+107B2", "U+107B3",
  "U+107B4", "U+107B5", "U+107B6", "U+107B7", "U+107B8", "U+107B9",
  "U+107BA", "U+10A01", "U+10A02", "U+10A03", "U+10A05", "U+10A06",
  "U+10A0C", "U+10A0D", "U+10A0E", "U+10A0F", "U+10A38", "U+10A39",
  "U+10A3A", "U+10A3F", "U+10AE5", "U+10AE6", "U+10D24", "U+10D25",
  "U+10D26", "U+10D27", "U+10EAB", "U+10EAC", "U+10F46", "U+10F47",
  "U+10F48", "U+10F49", "U+10F4A", "U+10F4B", "U+10F4C", "U+10F4D",
  "U+10F4E", "U+10F4F", "U+10F50", "U+10F82", "U+10F83", "U+10F84",
  "U+10F85", "U+11001", "U+11038", "U+11039", "U+1103A", "U+1103B",
  "U+1103C", "U+1103D", "U+1103E", "U+1103F", "U+11040", "U+11041",
  "U+11042", "U+11043", "U+11044", "U+11045", "U+11046", "U+11070",
  "U+11073", "U+11074", "U+1107F", "U+11080", "U+11081", "U+110B3",
  "U+110B4", "U+110B5", "U+110B6", "U+110B9", "U+110BA", "U+110BD",
  "U+110C2", "U+110CD", "U+11100", "U+11101", "U+11102", "U+11127",
  "U+11128", "U+11129", "U+1112A", "U+1112B", "U+1112D", "U+1112E",
  "U+1112F", "U+11130", "U+11131", "U+11132", "U+11133", "U+11134",
  "U+11173", "U+11180", "U+11181", "U+111B6", "U+111B7", "U+111B8",
  "U+111B9", "U+111BA", "U+111BB", "U+111BC", "U+111BD", "U+111BE",
  "U+111C9", "U+111CA", "U+111CB", "U+111CC", "U+111CF", "U+1122F",
  "U+11230", "U+11231", "U+11234", "U+11236", "U+11237", "U+1123E",
  "U+112DF", "U+112E3", "U+112E4", "U+112E5", "U+112E6", "U+112E7",
  "U+112E8", "U+112E9", "U+112EA", "U+11300", "U+11301", "U+1133B",
  "U+1133C", "U+11340", "U+11366", "U+11367", "U+11368", "U+11369",
  "U+1136A", "U+1136B", "U+1136C", "U+11370", "U+11371", "U+11372",
  "U+11373", "U+11374", "U+11438", "U+11439", "U+1143A", "U+1143B",
  "U+1143C", "U+1143D", "U+1143E", "U+1143F", "U+11442", "U+11443",
  "U+11444", "U+11446", "U+1145E", "U+114B3", "U+114B4", "U+114B5",
  "U+114B6", "U+114B7", "U+114B8", "U+114BA", "U+114BF", "U+114C0",
  "U+114C2", "U+114C3", "U+115B2", "U+115B3", "U+115B4", "U+115B5",
  "U+115BC", "U+115BD", "U+115BF", "U+115C0", "U+115DC", "U+115DD",
  "U+11633", "U+11634", "U+11635", "U+11636", "U+11637", "U+11638",
  "U+11639", "U+1163A", "U+1163D", "U+1163F", "U+11640", "U+116AB",
  "U+116AD", "U+116B0", "U+116B1", "U+116B2", "U+116B3", "U+116B4",
  "U+116B5", "U+116B7", "U+1171D", "U+1171E", "U+1171F", "U+11722",
  "U+11723", "U+11724", "U+11725", "U+11727", "U+11728", "U+11729",
  "U+1172A", "U+1172B", "U+1182F", "U+11830", "U+11831", "U+11832",
  "U+11833", "U+11834", "U+11835", "U+11836", "U+11837", "U+11839",
  "U+1183A", "U+1193B", "U+1193C", "U+1193E", "U+11943", "U+119D4",
  "U+119D5", "U+119D6", "U+119D7", "U+119DA", "U+119DB", "U+119E0",
  "U+11A01", "U+11A02", "U+11A03", "U+11A04", "U+11A05", "U+11A06",
  "U+11A07", "U+11A08", "U+11A09", "U+11A0A", "U+11A33", "U+11A34",
  "U+11A35", "U+11A36", "U+11A37", "U+11A38", "U+11A3B", "U+11A3C",
  "U+11A3D", "U+11A3E", "U+11A47", "U+11A51", "U+11A52", "U+11A53",
  "U+11A54", "U+11A55", "U+11A56", "U+11A59", "U+11A5A", "U+11A5B",
  "U+11A8A", "U+11A8B", "U+11A8C", "U+11A8D", "U+11A8E", "U+11A8F",
  "U+11A90", "U+11A91", "U+11A92", "U+11A93", "U+11A94", "U+11A95",
  "U+11A96", "U+11A98", "U+11A99", "U+11C30", "U+11C31", "U+11C32",
  "U+11C33", "U+11C34", "U+11C35", "U+11C36", "U+11C38", "U+11C39",
  "U+11C3A", "U+11C3B", "U+11C3C", "U+11C3D", "U+11C3F", "U+11C92",
  "U+11C93", "U+11C94", "U+11C95", "U+11C96", "U+11C97", "U+11C98",
  "U+11C99", "U+11C9A", "U+11C9B", "U+11C9C", "U+11C9D", "U+11C9E",
  "U+11C9F", "U+11CA0", "U+11CA1", "U+11CA2", "U+11CA3", "U+11CA4",
  "U+11CA5", "U+11CA6", "U+11CA7", "U+11CAA", "U+11CAB", "U+11CAC",
  "U+11CAD", "U+11CAE", "U+11CAF", "U+11CB0", "U+11CB2", "U+11CB3",
  "U+11CB5", "U+11CB6", "U+11D31", "U+11D32", "U+11D33", "U+11D34",
  "U+11D35", "U+11D36", "U+11D3A", "U+11D3C", "U+11D3D", "U+11D3F",
  "U+11D40", "U+11D41", "U+11D42", "U+11D43", "U+11D44", "U+11D45",
  "U+11D47", "U+11D90", "U+11D91", "U+11D95", "U+11D97", "U+11EF3",
  "U+11EF4", "U+13430", "U+13431", "U+13432", "U+13433", "U+13434",
  "U+13435", "U+13436", "U+13437", "U+13438", "U+16AF0", "U+16AF1",
  "U+16AF2", "U+16AF3", "U+16AF4", "U+16B30", "U+16B31", "U+16B32",
  "U+16B33", "U+16B34", "U+16B35", "U+16B36", "U+16B40", "U+16B41",
  "U+16B42", "U+16B43", "U+16F4F", "U+16F8F", "U+16F90", "U+16F91",
  "U+16F92", "U+16F93", "U+16F94", "U+16F95", "U+16F96", "U+16F97",
  "U+16F98", "U+16F99", "U+16F9A", "U+16F9B", "U+16F9C", "U+16F9D",
  "U+16F9E", "U+16F9F", "U+16FE0", "U+16FE1", "U+16FE3", "U+16FE4",
  "U+1AFF0", "U+1AFF1", "U+1AFF2", "U+1AFF3", "U+1AFF5", "U+1AFF6",
  "U+1AFF7", "U+1AFF8", "U+1AFF9", "U+1AFFA", "U+1AFFB", "U+1AFFD",
  "U+1AFFE", "U+1BC9D", "U+1BC9E", "U+1BCA0", "U+1BCA1", "U+1BCA2",
  "U+1BCA3", "U+1CF00", "U+1CF01", "U+1CF02", "U+1CF03", "U+1CF04",
  "U+1CF05", "U+1CF06", "U+1CF07", "U+1CF08", "U+1CF09", "U+1CF0A",
  "U+1CF0B", "U+1CF0C", "U+1CF0D", "U+1CF0E", "U+1CF0F", "U+1CF10",
  "U+1CF11", "U+1CF12", "U+1CF13", "U+1CF14", "U+1CF15", "U+1CF16",
  "U+1CF17", "U+1CF18", "U+1CF19", "U+1CF1A", "U+1CF1B", "U+1CF1C",
  "U+1CF1D", "U+1CF1E", "U+1CF1F", "U+1CF20", "U+1CF21", "U+1CF22",
  "U+1CF23", "U+1CF24", "U+1CF25", "U+1CF26", "U+1CF27", "U+1CF28",
  "U+1CF29", "U+1CF2A", "U+1CF2B", "U+1CF2C", "U+1CF2D", "U+1CF30",
  "U+1CF31", "U+1CF32", "U+1CF33", "U+1CF34", "U+1CF35", "U+1CF36",
  "U+1CF37", "U+1CF38", "U+1CF39", "U+1CF3A", "U+1CF3B", "U+1CF3C",
  "U+1CF3D", "U+1CF3E", "U+1CF3F", "U+1CF40", "U+1CF41", "U+1CF42",
  "U+1CF43", "U+1CF44", "U+1CF45", "U+1CF46", "U+1D167", "U+1D168",
  "U+1D169", "U+1D173", "U+1D174", "U+1D175", "U+1D176", "U+1D177",
  "U+1D178", "U+1D179", "U+1D17A", "U+1D17B", "U+1D17C", "U+1D17D",
  "U+1D17E", "U+1D17F", "U+1D180", "U+1D181", "U+1D182", "U+1D185",
  "U+1D186", "U+1D187", "U+1D188", "U+1D189", "U+1D18A", "U+1D18B",
  "U+1D1AA", "U+1D1AB", "U+1D1AC", "U+1D1AD", "U+1D242", "U+1D243",
  "U+1D244", "U+1DA00", "U+1DA01", "U+1DA02", "U+1DA03", "U+1DA04",
  "U+1DA05", "U+1DA06", "U+1DA07", "U+1DA08", "U+1DA09", "U+1DA0A",
  "U+1DA0B", "U+1DA0C", "U+1DA0D", "U+1DA0E", "U+1DA0F", "U+1DA10",
  "U+1DA11", "U+1DA12", "U+1DA13", "U+1DA14", "U+1DA15", "U+1DA16",
  "U+1DA17", "U+1DA18", "U+1DA19", "U+1DA1A", "U+1DA1B", "U+1DA1C",
  "U+1DA1D", "U+1DA1E", "U+1DA1F", "U+1DA20", "U+1DA21", "U+1DA22",
  "U+1DA23", "U+1DA24", "U+1DA25", "U+1DA26", "U+1DA27", "U+1DA28",
  "U+1DA29", "U+1DA2A", "U+1DA2B", "U+1DA2C", "U+1DA2D", "U+1DA2E",
  "U+1DA2F", "U+1DA30", "U+1DA31", "U+1DA32", "U+1DA33", "U+1DA34",
  "U+1DA35", "U+1DA36", "U+1DA3B", "U+1DA3C", "U+1DA3D", "U+1DA3E",
  "U+1DA3F", "U+1DA40", "U+1DA41", "U+1DA42", "U+1DA43", "U+1DA44",
  "U+1DA45", "U+1DA46", "U+1DA47", "U+1DA48", "U+1DA49", "U+1DA4A",
  "U+1DA4B", "U+1DA4C", "U+1DA4D", "U+1DA4E", "U+1DA4F", "U+1DA50",
  "U+1DA51", "U+1DA52", "U+1DA53", "U+1DA54", "U+1DA55", "U+1DA56",
  "U+1DA57", "U+1DA58", "U+1DA59", "U+1DA5A", "U+1DA5B", "U+1DA5C",
  "U+1DA5D", "U+1DA5E", "U+1DA5F", "U+1DA60", "U+1DA61", "U+1DA62",
  "U+1DA63", "U+1DA64", "U+1DA65", "U+1DA66", "U+1DA67", "U+1DA68",
  "U+1DA69", "U+1DA6A", "U+1DA6B", "U+1DA6C", "U+1DA75", "U+1DA84",
  "U+1DA9B", "U+1DA9C", "U+1DA9D", "U+1DA9E", "U+1DA9F", "U+1DAA1",
  "U+1DAA2", "U+1DAA3", "U+1DAA4", "U+1DAA5", "U+1DAA6", "U+1DAA7",
  "U+1DAA8", "U+1DAA9", "U+1DAAA", "U+1DAAB", "U+1DAAC", "U+1DAAD",
  "U+1DAAE", "U+1DAAF", "U+1E000", "U+1E001", "U+1E002", "U+1E003",
  "U+1E004", "U+1E005", "U+1E006", "U+1E008", "U+1E009", "U+1E00A",
  "U+1E00B", "U+1E00C", "U+1E00D", "U+1E00E", "U+1E00F", "U+1E010",
  "U+1E011", "U+1E012", "U+1E013", "U+1E014", "U+1E015", "U+1E016",
  "U+1E017", "U+1E018", "U+1E01B", "U+1E01C", "U+1E01D", "U+1E01E",
  "U+1E01F", "U+1E020", "U+1E021", "U+1E023", "U+1E024", "U+1E026",
  "U+1E027", "U+1E028", "U+1E029", "U+1E02A", "U+1E130", "U+1E131",
  "U+1E132", "U+1E133", "U+1E134", "U+1E135", "U+1E136", "U+1E137",
  "U+1E138", "U+1E139", "U+1E13A", "U+1E13B", "U+1E13C", "U+1E13D",
  "U+1E2AE", "U+1E2EC", "U+1E2ED", "U+1E2EE", "U+1E2EF", "U+1E8D0",
  "U+1E8D1", "U+1E8D2", "U+1E8D3", "U+1E8D4", "U+1E8D5", "U+1E8D6",
  "U+1E944", "U+1E945", "U+1E946", "U+1E947", "U+1E948", "U+1E949",
  "U+1E94A", "U+1E94B", "U+1F3FB", "U+1F3FC", "U+1F3FD", "U+1F3FE",
  "U+1F3FF", "U+E0001", "U+E0020", "U+E0021", "U+E0022", "U+E0023",
  "U+E0024", "U+E0025", "U+E0026", "U+E0027", "U+E0028", "U+E0029",
  "U+E002A", "U+E002B", "U+E002C", "U+E002D", "U+E002E", "U+E002F",
  "U+E0030", "U+E0031", "U+E0032", "U+E0033", "U+E0034", "U+E0035",
  "U+E0036", "U+E0037", "U+E0038", "U+E0039", "U+E003A", "U+E003B",
  "U+E003C", "U+E003D", "U+E003E", "U+E003F", "U+E0040", "U+E0041",
  "U+E0042", "U+E0043", "U+E0044", "U+E0045", "U+E0046", "U+E0047",
  "U+E0048", "U+E0049", "U+E004A", "U+E004B", "U+E004C", "U+E004D",
  "U+E004E", "U+E004F", "U+E0050", "U+E0051", "U+E0052", "U+E0053",
  "U+E0054", "U+E0055", "U+E0056", "U+E0057", "U+E0058", "U+E0059",
  "U+E005A", "U+E005B", "U+E005C", "U+E005D", "U+E005E", "U+E005F",
  "U+E0060", "U+E0061", "U+E0062", "U+E0063", "U+E0064", "U+E0065",
  "U+E0066", "U+E0067", "U+E0068", "U+E0069", "U+E006A", "U+E006B",
  "U+E006C", "U+E006D", "U+E006E", "U+E006F", "U+E0070", "U+E0071",
  "U+E0072", "U+E0073", "U+E0074", "U+E0075", "U+E0076", "U+E0077",
  "U+E0078", "U+E0079", "U+E007A", "U+E007B", "U+E007C", "U+E007D",
  "U+E007E", "U+E007F", "U+E0100", "U+E0101", "U+E0102", "U+E0103",
  "U+E0104", "U+E0105", "U+E0106", "U+E0107", "U+E0108", "U+E0109",
  "U+E010A", "U+E010B", "U+E010C", "U+E010D", "U+E010E", "U+E010F",
  "U+E0110", "U+E0111", "U+E0112", "U+E0113", "U+E0114", "U+E0115",
  "U+E0116", "U+E0117", "U+E0118", "U+E0119", "U+E011A", "U+E011B",
  "U+E011C", "U+E011D", "U+E011E", "U+E011F", "U+E0120", "U+E0121",
  "U+E0122", "U+E0123", "U+E0124", "U+E0125", "U+E0126", "U+E0127",
  "U+E0128", "U+E0129", "U+E012A", "U+E012B", "U+E012C", "U+E012D",
  "U+E012E", "U+E012F", "U+E0130", "U+E0131", "U+E0132", "U+E0133",
  "U+E0134", "U+E0135", "U+E0136", "U+E0137", "U+E0138", "U+E0139",
  "U+E013A", "U+E013B", "U+E013C", "U+E013D", "U+E013E", "U+E013F",
  "U+E0140", "U+E0141", "U+E0142", "U+E0143", "U+E0144", "U+E0145",
  "U+E0146", "U+E0147", "U+E0148", "U+E0149", "U+E014A", "U+E014B",
  "U+E014C", "U+E014D", "U+E014E", "U+E014F", "U+E0150", "U+E0151",
  "U+E0152", "U+E0153", "U+E0154", "U+E0155", "U+E0156", "U+E0157",
  "U+E0158", "U+E0159", "U+E015A", "U+E015B", "U+E015C", "U+E015D",
  "U+E015E", "U+E015F", "U+E0160", "U+E0161", "U+E0162", "U+E0163",
  "U+E0164", "U+E0165", "U+E0166", "U+E0167", "U+E0168", "U+E0169",
  "U+E016A", "U+E016B", "U+E016C", "U+E016D", "U+E016E", "U+E016F",
  "U+E0170", "U+E0171", "U+E0172", "U+E0173", "U+E0174", "U+E0175",
  "U+E0176", "U+E0177", "U+E0178", "U+E0179", "U+E017A", "U+E017B",
  "U+E017C", "U+E017D", "U+E017E", "U+E017F", "U+E0180", "U+E0181",
  "U+E0182", "U+E0183", "U+E0184", "U+E0185", "U+E0186", "U+E0187",
  "U+E0188", "U+E0189", "U+E018A", "U+E018B", "U+E018C", "U+E018D",
  "U+E018E", "U+E018F", "U+E0190", "U+E0191", "U+E0192", "U+E0193",
  "U+E0194", "U+E0195", "U+E0196", "U+E0197", "U+E0198", "U+E0199",
  "U+E019A", "U+E019B", "U+E019C", "U+E019D", "U+E019E", "U+E019F",
  "U+E01A0", "U+E01A1", "U+E01A2", "U+E01A3", "U+E01A4", "U+E01A5",
  "U+E01A6", "U+E01A7", "U+E01A8", "U+E01A9", "U+E01AA", "U+E01AB",
  "U+E01AC", "U+E01AD", "U+E01AE", "U+E01AF", "U+E01B0", "U+E01B1",
  "U+E01B2", "U+E01B3", "U+E01B4", "U+E01B5", "U+E01B6", "U+E01B7",
  "U+E01B8", "U+E01B9", "U+E01BA", "U+E01BB", "U+E01BC", "U+E01BD",
  "U+E01BE", "U+E01BF", "U+E01C0", "U+E01C1", "U+E01C2", "U+E01C3",
  "U+E01C4", "U+E01C5", "U+E01C6", "U+E01C7", "U+E01C8", "U+E01C9",
  "U+E01CA", "U+E01CB", "U+E01CC", "U+E01CD", "U+E01CE", "U+E01CF",
  "U+E01D0", "U+E01D1", "U+E01D2", "U+E01D3", "U+E01D4", "U+E01D5",
  "U+E01D6", "U+E01D7", "U+E01D8", "U+E01D9", "U+E01DA", "U+E01DB",
  "U+E01DC", "U+E01DD", "U+E01DE", "U+E01DF", "U+E01E0", "U+E01E1",
  "U+E01E2", "U+E01E3", "U+E01E4", "U+E01E5", "U+E01E6", "U+E01E7",
  "U+E01E8", "U+E01E9", "U+E01EA", "U+E01EB", "U+E01EC", "U+E01ED",
  "U+E01EE", "U+E01EF"}
\* the characters that str.upper(), str.lower() or the title-case mapping
\* changes, and for each its upper case, lower case and title case
CaseFrom == <<
  "A", "B", "C", "D", "E", "F", "G", "H", "I", "J", "K", "L", "M", "N",
  "O", "P", "Q", "R", "S", "T", "U", "V", "W", "X", "Y", "Z", "a", "b",
  "c", "d", "e", "f", "g", "h", "i", "j", "k", "l", "m", "n", "o", "p",
  "q", "r", "s", "t", "u", "v", "w", "x", "y", "z", "µ", "À", "Á", "Â",
  "Ã", "Ä", "Å", "Æ", "Ç", "È", "É", "Ê", "Ë", "Ì", "Í", "Î", "Ï", "Ð",
  "Ñ", "Ò", "Ó", "Ô", "Õ", "Ö", "Ø", "Ù", "Ú", "Û", "Ü", "Ý", "Þ", "ß",
  "à", "á", "â", "ã", "ä", "å", "æ", "ç", "è", "é", "ê", "ë", "ì", "í",
  "î", "ï", "ð", "ñ", "ò", "ó", "ô", "õ", "ö", "ø", "ù", "ú", "û", "ü",
  "ý", "þ", "ÿ", "U+0100", "U+0101", "U+0102", "U+0103", "U+0104",
  "U+0105", "U+0106", "U+0107", "U+0108", "U+0109", "U+010A", "U+010B",
  "U+010C", "U+010D", "U+010E", "U+010F", "U+0110", "U+0111", "U+0112",
  "U+0113", "U+0114", "U+0115", "U+0116", "U+0117", "U+0118", "U+0119",
  "U+011A", "U+011B", "U+011C", "U+011D", "U+011E", "U+011F", "U+0120",
  "U+0121", "U+0122", "U+0123", "U+0124", "U+0125", "U+0126", "U+0127",
  "U+0128", "U+0129", "U+012A", "U+012B", "U+012C", "U+012D", "U+012E",
  "U+012F", "U+0130", "U+0131", "U+0132", "U+0133", "U+0134", "U+0135",
  "U+0136", "U+0137", "U+0139", "U+013A", "U+013B", "U+013C", "U+013D",
  "U+013E", "U+013F", "U+0140", "U+0141", "U+0142", "U+0143", "U+0144",
  "U+0145", "U+0146", "U+0147", "U+0148", "U+0149", "U+014A", "U+014B",
  "U+014C", "U+014D", "U+014E", "U+014F", "U+0150", "U+0151", "U+0152",
  "U+0153", "U+0154", "U+0155", "U+0156", "U+0157", "U+0158", "U+0159",
  "U+015A", "U+015B", "U+015C", "U+015D", "U+015E", "U+015F", "U+0160",
  "U+0161", "U+0162", "U+0163", "U+0164", "U+0165", "U+0166", "U+0167",
  "U+0168", "U+0169", "U+016A", "U+016B", "U+016C", "U+016D", "U+016E",
  "U+016F", "U+0170", "U+0171", "U+0172", "U+0173", "U+0174", "U+0175",
  "U+0176", "U+0177", "U+0178", "U+0179", "U+017A", "U+017B", "U+017C",
  "U+017D", "U+017E", "U+017F", "ƀ", "Ɓ", "Ƃ", "ƃ", "Ƅ", "ƅ", "Ɔ", "Ƈ",
  "ƈ", "Ɖ", "Ɗ", "Ƌ", "ƌ", "Ǝ", "Ə", "Ɛ", "Ƒ", "ƒ", "Ɠ", "Ɣ", "ƕ", "Ɩ",
  "Ɨ", "Ƙ", "ƙ", "ƚ", "Ɯ", "Ɲ", "ƞ", "Ɵ", "Ơ", "ơ", "Ƣ", "ƣ", "Ƥ", "ƥ",
  "Ʀ", "Ƨ", "ƨ", "Ʃ", "Ƭ", "ƭ", "Ʈ", "Ư", "ư", "Ʊ", "Ʋ", "Ƴ", "ƴ", "Ƶ",
  "ƶ", "Ʒ", "Ƹ", "ƹ", "Ƽ", "ƽ", "ƿ", "Ǆ", "ǅ", "ǆ", "Ǉ", "ǈ", "ǉ", "Ǌ",
  "ǋ", "ǌ", "Ǎ", "ǎ", "Ǐ", "ǐ", "Ǒ", "ǒ", "Ǔ", "ǔ", "Ǖ", "ǖ", "Ǘ", "ǘ",
  "Ǚ", "ǚ", "Ǜ", "ǜ", "ǝ", "Ǟ", "ǟ", "Ǡ", "ǡ", "Ǣ", "ǣ", "Ǥ", "ǥ", "Ǧ",
  "ǧ", "Ǩ", "ǩ", "Ǫ", "ǫ", "Ǭ", "ǭ", "Ǯ", "ǯ", "ǰ", "Ǳ", "ǲ", "ǳ", "Ǵ",
  "ǵ", "Ƕ", "Ƿ", "Ǹ", "ǹ", "Ǻ", "ǻ", "Ǽ", "ǽ", "Ǿ", "ǿ", "U+0200",
  "U+0201", "U+0202", "U+0203", "U+0204", "U+0205", "U+0206", "U+0207",
  "U+0208", "U+0209", "U+020A", "U+020B", "U+020C", "U+020D", "U+020E",
  "U+020F", "U+0210", "U+0211", "U+0212", "U+0213", "U+0214", "U+0215",
  "U+0216", "U+0217", "U+0218", "U+0219", "U+021A", "U+021B", "U+021C",
  "U+021D", "U+021E", "U+021F", "U+0220", "U+0222", "U+0223", "U+0224",
  "U+0225", "U+0226", "U+0227", "U+0228", "U+0229", "U+022A", "U+022B",
  "U+022C", "U+022D", "U+022E", "U+022F", "U+0230", "U+0231", "U+0232",
  "U+0233", "U+023A", "U+023B", "U+023C", "U+023D", "U+023E", "U+023F",
  "U+0240", "U+0241", "U+0242", "U+0243", "U+0244", "U+0245", "U+0246",
  "U+0247", "U+0248", "U+0249", "U+024A", "U+024B", "U+024C", "U+024D",
  "U+024E", "U+024F", "U+0250", "U+0251", "U+0252", "U+0253", "U+0254",
  "U+0256", "U+0257", "U+0259", "U+025B", "U+025C", "U+0260", "U+0261",
  "U+0263", "U+0265", "U+0266", "U+0268", "U+0269", "U+026A", "U+026B",
  "U+026C", "U+026F", "U+0271", "U+0272", "U+0275", "U+027D", "ʀ", "ʂ",
  "ʃ", "ʇ", "ʈ", "ʉ", "ʊ", "ʋ", "ʌ", "ʒ", "ʝ", "ʞ", "U+0345", "U+0370",
  "U+0371", "U+0372", "U+0373", "U+0376", "U+0377", "U+037B", "U+037C",
  "U+037D", "U+037F", "Ά", "Έ", "Ή", "Ί", "Ό", "Ύ", "Ώ", "ΐ", "Α", "Β",
  "Γ", "Δ", "Ε", "Ζ", "Η", "Θ", "Ι", "Κ", "Λ", "Μ", "Ν", "Ξ", "Ο", "Π",
  "Ρ", "Σ", "Τ", "Υ", "Φ", "Χ", "Ψ", "Ω", "Ϊ", "Ϋ", "ά", "έ", "ή", "ί",
  "ΰ", "α", "β", "γ", "δ", "ε", "ζ", "η", "θ", "ι", "κ", "λ", "μ", "ν",
  "ξ", "ο", "π", "ρ", "ς", "σ", "τ", "υ", "φ", "χ", "ψ", "ω", "ϊ", "ϋ",
  "ό", "ύ", "ώ", "Ϗ", "ϐ", "ϑ", "ϕ", "ϖ", "ϗ", "Ϙ", "ϙ", "Ϛ", "ϛ", "Ϝ",
  "ϝ", "Ϟ", "ϟ", "Ϡ", "ϡ", "Ϣ", "ϣ", "Ϥ", "ϥ", "Ϧ", "ϧ", "Ϩ", "ϩ", "Ϫ",
  "ϫ", "Ϭ", "ϭ", "Ϯ", "ϯ", "ϰ", "ϱ", "ϲ", "ϳ", "ϴ", "ϵ", "Ϸ", "ϸ", "Ϲ",
  "Ϻ", "ϻ", "Ͻ", "Ͼ", "Ͽ", "U+0400", "U+0401", "U+0402", "U+0403",
  "U+0404", "U+0405", "U+0406", "U+0407", "U+0408", "U+0409", "U+040A",
  "U+040B", "U+040C", "U+040D", "U+040E", "U+040F", "U+0410", "U+0411",
  "U+0412", "U+0413", "U+0414", "U+0415", "U+0416", "U+0417", "U+0418",
  "U+0419", "U+041A", "U+041B", "U+041C", "U+041D", "U+041E", "U+041F",
  "U+0420", "U+0421", "U+0422", "U+0423", "U+0424", "U+0425", "U+0426",
  "U+0427", "U+0428", "U+0429", "U+042A", "U+042B", "U+042C", "U+042D",
  "U+042E", "U+042F", "U+0430", "U+0431", "U+0432", "U+0433", "U+0434",
  "U+0435", "U+0436", "U+0437", "U+0438", "U+0439", "U+043A", "U+043B",
  "U+043C", "U+043D", "U+043E", "U+043F", "U+0440", "U+0441", "U+0442",
  "U+0443", "U+0444", "U+0445", "U+0446", "U+0447", "U+0448", "U+0449",
  "U+044A", "U+044B", "U+044C", "U+044D", "U+044E", "U+044F", "U+0450",
  "U+0451", "U+0452", "U+0453", "U+0454", "U+0455", "U+0456", "U+0457",
  "U+0458", "U+0459", "U+045A", "U+045B", "U+045C", "U+045D", "U+045E",
  "U+045F", "U+0460", "U+0461", "U+0462", "U+0463", "U+0464", "U+0465",
  "U+0466", "U+0467", "U+0468", "U+0469", "U+046A", "U+046B", "U+046C",
  "U+046D", "U+046E", "U+046F", "U+0470", "U+0471", "U+0472", "U+0473",
  "U+0474", "U+0475", "U+0476", "U+0477", "U+0478", "U+0479", "U+047A",
  "U+047B", "U+047C", "U+047D", "U+047E", "U+047F", "Ҁ", "ҁ", "Ҋ", "ҋ",
  "Ҍ", "ҍ", "Ҏ", "ҏ", "Ґ", "ґ", "Ғ", "ғ", "Ҕ", "ҕ", "Җ", "җ", "Ҙ", "ҙ",
  "Қ", "қ", "Ҝ", "ҝ", "Ҟ", "ҟ", "Ҡ", "ҡ", "Ң", "ң", "Ҥ", "ҥ", "Ҧ", "ҧ",
  "Ҩ", "ҩ", "Ҫ", "ҫ", "Ҭ", "ҭ", "Ү", "ү", "Ұ", "ұ", "Ҳ", "ҳ", "Ҵ", "ҵ",
  "Ҷ", "ҷ", "Ҹ", "ҹ", "Һ", "һ", "Ҽ", "ҽ", "Ҿ", "ҿ", "Ӏ", "Ӂ", "ӂ", "Ӄ",
  "ӄ", "Ӆ", "ӆ", "Ӈ", "ӈ", "Ӊ", "ӊ", "Ӌ", "ӌ", "Ӎ", "ӎ", "ӏ", "Ӑ", "ӑ",
  "Ӓ", "ӓ", "Ӕ", "ӕ", "Ӗ", "ӗ", "Ә", "ә", "Ӛ", "ӛ", "Ӝ", "ӝ", "Ӟ", "ӟ",
  "Ӡ", "ӡ", "Ӣ", "ӣ", "Ӥ", "ӥ", "Ӧ", "ӧ", "Ө", "ө", "Ӫ", "ӫ", "Ӭ", "ӭ",
  "Ӯ", "ӯ", "Ӱ", "ӱ", "Ӳ", "ӳ", "Ӵ", "ӵ", "Ӷ", "ӷ", "Ӹ", "ӹ", "Ӻ", "ӻ",
  "Ӽ", "ӽ", "Ӿ", "ӿ", "U+0500", "U+0501", "U+0502", "U+0503", "U+0504",
  "U+0505", "U+0506", "U+0507", "U+0508", "U+0509", "U+050A", "U+050B",
  "U+050C", "U+050D", "U+050E", "U+050F", "U+0510", "U+0511", "U+0512",
  "U+0513", "U+0514", "U+0515", "U+0516", "U+0517", "U+0518", "U+0519",
  "U+051A", "U+051B", "U+051C", "U+051D", "U+051E", "U+051F", "U+0520",
  "U+0521", "U+0522", "U+0523", "U+0524", "U+0525", "U+0526", "U+0527",
  "U+0528", "U+0529", "U+052A", "U+052B", "U+052C", "U+052D", "U+052E",
  "U+052F", "U+0531", "U+0532", "U+0533", "U+0534", "U+0535", "U+0536",
  "U+0537", "U+0538", "U+0539", "U+053A", "U+053B", "U+053C", "U+053D",
  "U+053E", "U+053F", "U+0540", "U+0541", "U+0542", "U+0543", "U+0544",
  "U+0545", "U+0546", "U+0547", "U+0548", "U+0549", "U+054A", "U+054B",
  "U+054C", "U+054D", "U+054E", "U+054F", "U+0550", "U+0551", "U+0552",
  "U+0553", "U+0554", "U+0555", "U+0556", "U+0561", "U+0562", "U+0563",
  "U+0564", "U+0565", "U+0566", "U+0567", "U+0568", "U+0569", "U+056A",
  "U+056B", "U+056C", "U+056D", "U+056E", "U+056F", "U+0570", "U+0571",
  "U+0572", "U+0573", "U+0574", "U+0575", "U+0576", "U+0577", "U+0578",
  "U+0579", "U+057A", "U+057B", "U+057C", "U+057D", "U+057E", "U+057F",
  "ր", "ց", "ւ", "փ", "ք", "օ", "ֆ", "և", "Ⴀ", "Ⴁ", "Ⴂ", "Ⴃ", "Ⴄ", "Ⴅ",
  "Ⴆ", "Ⴇ", "Ⴈ", "Ⴉ", "Ⴊ", "Ⴋ", "Ⴌ", "Ⴍ", "Ⴎ", "Ⴏ", "Ⴐ", "Ⴑ", "Ⴒ", "Ⴓ",
  "Ⴔ", "Ⴕ", "Ⴖ", "Ⴗ", "Ⴘ", "Ⴙ", "Ⴚ", "Ⴛ", "Ⴜ", "Ⴝ", "Ⴞ", "Ⴟ", "Ⴠ", "Ⴡ",
  "Ⴢ", "Ⴣ", "Ⴤ", "Ⴥ", "Ⴧ", "Ⴭ", "ა", "ბ", "გ", "დ", "ე", "ვ", "ზ", "თ",
  "ი", "კ", "ლ", "მ", "ნ", "ო", "პ", "ჟ", "რ", "ს", "ტ", "უ", "ფ", "ქ",
  "ღ", "ყ", "შ", "ჩ", "ც", "ძ", "წ", "ჭ", "ხ", "ჯ", "ჰ", "ჱ", "ჲ", "ჳ",
  "ჴ", "ჵ", "ჶ", "ჷ", "ჸ", "ჹ", "ჺ", "ჽ", "ჾ", "ჿ", "Ꭰ", "Ꭱ", "Ꭲ", "Ꭳ",
  "Ꭴ", "Ꭵ", "Ꭶ", "Ꭷ", "Ꭸ", "Ꭹ", "Ꭺ", "Ꭻ", "Ꭼ", "Ꭽ", "Ꭾ", "Ꭿ", "Ꮀ", "Ꮁ",
  "Ꮂ", "Ꮃ", "Ꮄ", "Ꮅ", "Ꮆ", "Ꮇ", "Ꮈ", "Ꮉ", "Ꮊ", "Ꮋ", "Ꮌ", "Ꮍ", "Ꮎ", "Ꮏ",
  "Ꮐ", "Ꮑ", "Ꮒ", "Ꮓ", "Ꮔ", "Ꮕ", "Ꮖ", "Ꮗ", "Ꮘ", "Ꮙ", "Ꮚ", "Ꮛ", "Ꮜ", "Ꮝ",
  "Ꮞ", "Ꮟ", "Ꮠ", "Ꮡ", "Ꮢ", "Ꮣ", "Ꮤ", "Ꮥ", "Ꮦ", "Ꮧ", "Ꮨ", "Ꮩ", "Ꮪ", "Ꮫ",
  "Ꮬ", "Ꮭ", "Ꮮ", "Ꮯ", "Ꮰ", "Ꮱ", "Ꮲ", "Ꮳ", "Ꮴ", "Ꮵ", "Ꮶ", "Ꮷ", "Ꮸ", "Ꮹ",
  "Ꮺ", "Ꮻ", "Ꮼ", "Ꮽ", "Ꮾ", "Ꮿ", "Ᏸ", "Ᏹ", "Ᏺ", "Ᏻ", "Ᏼ", "Ᏽ", "ᏸ", "ᏹ",
  "ᏺ", "ᏻ", "ᏼ", "ᏽ", "ᲀ", "ᲁ", "ᲂ", "ᲃ", "ᲄ", "ᲅ", "ᲆ", "ᲇ", "ᲈ", "Ა",
  "Ბ", "Გ", "Დ", "Ე", "Ვ", "Ზ", "Თ", "Ი", "Კ", "Ლ", "Მ", "Ნ", "Ო", "Პ",
  "Ჟ", "Რ", "Ს", "Ტ", "Უ", "Ფ", "Ქ", "Ღ", "Ყ", "Შ", "Ჩ", "Ც", "Ძ", "Წ",
  "Ჭ", "Ხ", "Ჯ", "Ჰ", "Ჱ", "Ჲ", "Ჳ", "Ჴ", "Ჵ", "Ჶ", "Ჷ", "Ჸ", "Ჹ", "Ჺ",
  "Ჽ", "Ჾ", "Ჿ", "U+1D79", "U+1D7D", "ᶎ", "U+1E00", "U+1E01", "U+1E02",
  "U+1E03", "U+1E04", "U+1E05", "U+1E06", "U+1E07", "U+1E08", "U+1E09",
  "U+1E0A", "U+1E0B", "U+1E0C", "U+1E0D", "U+1E0E", "U+1E0F", "U+1E10",
  "U+1E11", "U+1E12", "U+1E13", "U+1E14", "U+1E15", "U+1E16", "U+1E17",
  "U+1E18", "U+1E19", "U+1E1A", "U+1E1B", "U+1E1C", "U+1E1D", "U+1E1E",
  "U+1E1F", "U+1E20", "U+1E21", "U+1E22", "U+1E23", "U+1E24", "U+1E25",
  "U+1E26", "U+1E27", "U+1E28", "U+1E29", "U+1E2A", "U+1E2B", "U+1E2C",
  "U+1E2D", "U+1E2E", "U+1E2F", "U+1E30", "U+1E31", "U+1E32", "U+1E33",
  "U+1E34", "U+1E35", "U+1E36", "U+1E37", "U+1E38", "U+1E39", "U+1E3A",
  "U+1E3B", "U+1E3C", "U+1E3D", "U+1E3E", "U+1E3F", "U+1E40", "U+1E41",
  "U+1E42", "U+1E43", "U+1E44", "U+1E45", "U+1E46", "U+1E47", "U+1E48",
  "U+1E49", "U+1E4A", "U+1E4B", "U+1E4C", "U+1E4D", "U+1E4E", "U+1E4F",
  "U+1E50", "U+1E51", "U+1E52", "U+1E53", "U+1E54", "U+1E55", "U+1E56",
  "U+1E57", "U+1E58", "U+1E59", "U+1E5A", "U+1E5B", "U+1E5C", "U+1E5D",
  "U+1E5E", "U+1E5F", "U+1E60", "U+1E61", "U+1E62", "U+1E63", "U+1E64",
  "U+1E65", "U+1E66", "U+1E67", "U+1E68", "U+1E69", "U+1E6A", "U+1E6B",
  "U+1E6C", "U+1E6D", "U+1E6E", "U+1E6F", "U+1E70", "U+1E71", "U+1E72",
  "U+1E73", "U+1E74", "U+1E75", "U+1E76", "U+1E77", "U+1E78", "U+1E79",
  "U+1E7A", "U+1E7B", "U+1E7C", "U+1E7D", "U+1E7E", "U+1E7F", "Ẁ", "ẁ",
  "Ẃ", "ẃ", "Ẅ", "ẅ", "Ẇ", "ẇ", "Ẉ", "ẉ", "Ẋ", "ẋ", "Ẍ", "ẍ", "Ẏ", "ẏ",
  "Ẑ", "ẑ", "Ẓ", "ẓ", "Ẕ", "ẕ", "ẖ", "ẗ", "ẘ", "ẙ", "ẚ", "ẛ", "ẞ", "Ạ",
  "ạ", "Ả", "ả", "Ấ", "ấ", "Ầ", "ầ", "Ẩ", "ẩ", "Ẫ", "ẫ", "Ậ", "ậ", "Ắ",
  "ắ", "Ằ", "ằ", "Ẳ", "ẳ", "Ẵ", "ẵ", "Ặ", "ặ", "Ẹ", "ẹ", "Ẻ", "ẻ", "Ẽ",
  "ẽ", "Ế", "ế", "Ề", "ề", "Ể", "ể", "Ễ", "ễ", "Ệ", "ệ", "Ỉ", "ỉ", "Ị",
  "ị", "Ọ", "ọ", "Ỏ", "ỏ", "Ố", "ố", "Ồ", "ồ", "Ổ", "ổ", "Ỗ", "ỗ", "Ộ",
  "ộ", "Ớ", "ớ", "Ờ", "ờ", "Ở", "ở", "Ỡ", "ỡ", "Ợ", "ợ", "Ụ", "ụ", "Ủ",
  "ủ", "Ứ", "ứ", "Ừ", "ừ", "Ử", "ử", "Ữ", "ữ", "Ự", "ự", "Ỳ", "ỳ", "Ỵ",
  "ỵ", "Ỷ", "ỷ", "Ỹ", "ỹ", "Ỻ", "ỻ", "Ỽ", "ỽ", "Ỿ", "ỿ", "U+1F00",
  "U+1F01", "U+1F02", "U+1F03", "U+1F04", "U+1F05", "U+1F06", "U+1F07",
  "U+1F08", "U+1F09", "U+1F0A", "U+1F0B", "U+1F0C", "U+1F0D", "U+1F0E",
  "U+1F0F", "U+1F10", "U+1F11", "U+1F12", "U+1F13", "U+1F14", "U+1F15",
  "U+1F18", "U+1F19", "U+1F1A", "U+1F1B", "U+1F1C", "U+1F1D", "U+1F20",
  "U+1F21", "U+1F22", "U+1F23", "U+1F24", "U+1F25", "U+1F26", "U+1F27",
  "U+1F28", "U+1F29", "U+1F2A", "U+1F2B", "U+1F2C", "U+1F2D", "U+1F2E",
  "U+1F2F", "U+1F30", "U+1F31", "U+1F32", "U+1F33", "U+1F34", "U+1F35",
  "U+1F36", "U+1F37", "U+1F38", "U+1F39", "U+1F3A", "U+1F3B", "U+1F3C",
  "U+1F3D", "U+1F3E", "U+1F3F", "U+1F40", "U+1F41", "U+1F42", "U+1F43",
  "U+1F44", "U+1F45", "U+1F48", "U+1F49", "U+1F4A", "U+1F4B", "U+1F4C",
  "U+1F4D", "U+1F50", "U+1F51", "U+1F52", "U+1F53", "U+1F54", "U+1F55",
  "U+1F56", "U+1F57", "U+1F59", "U+1F5B", "U+1F5D", "U+1F5F", "U+1F60",
  "U+1F61", "U+1F62", "U+1F63", "U+1F64", "U+1F65", "U+1F66", "U+1F67",
  "U+1F68", "U+1F69", "U+1F6A", "U+1F6B", "U+1F6C", "U+1F6D", "U+1F6E",
  "U+1F6F", "U+1F70", "U+1F71", "U+1F72", "U+1F73", "U+1F74", "U+1F75",
  "U+1F76", "U+1F77", "U+1F78", "U+1F79", "U+1F7A", "U+1F7B", "U+1F7C",
  "U+1F7D", "ᾀ", "ᾁ", "ᾂ", "ᾃ", "ᾄ", "ᾅ", "ᾆ", "ᾇ", "ᾈ", "ᾉ", "ᾊ", "ᾋ",
  "ᾌ", "ᾍ", "ᾎ", "ᾏ", "ᾐ", "ᾑ", "ᾒ", "ᾓ", "ᾔ", "ᾕ", "ᾖ", "ᾗ", "ᾘ", "ᾙ",
  "ᾚ", "ᾛ", "ᾜ", "ᾝ", "ᾞ", "ᾟ", "ᾠ", "ᾡ", "ᾢ", "ᾣ", "ᾤ", "ᾥ", "ᾦ", "ᾧ",
  "ᾨ", "ᾩ", "ᾪ", "ᾫ", "ᾬ", "ᾭ", "ᾮ", "ᾯ", "ᾰ", "ᾱ", "ᾲ", "ᾳ", "ᾴ", "ᾶ",
  "ᾷ", "Ᾰ", "Ᾱ", "Ὰ", "Ά", "ᾼ", "ι", "ῂ", "ῃ", "ῄ", "ῆ", "ῇ", "Ὲ", "Έ",
  "Ὴ", "Ή", "ῌ", "ῐ", "ῑ", "ῒ", "ΐ", "ῖ", "ῗ", "Ῐ", "Ῑ", "Ὶ", "Ί", "ῠ",
  "ῡ", "ῢ", "ΰ", "ῤ", "ῥ", "ῦ", "ῧ", "Ῠ", "Ῡ", "Ὺ", "Ύ", "Ῥ", "ῲ", "ῳ",
  "ῴ", "ῶ", "ῷ", "Ὸ", "Ό", "Ὼ", "Ώ", "ῼ", "U+2126", "U+212A", "U+212B",
  "U+2132", "U+214E", "U+2160", "U+2161", "U+2162", "U+2163", "U+2164",
  "U+2165", "U+2166", "U+2167", "U+2168", "U+2169", "U+216A", "U+216B",
  "U+216C", "U+216D", "U+216E", "U+216F", "U+2170", "U+2171", "U+2172",
  "U+2173", "U+2174", "U+2175", "U+2176", "U+2177", "U+2178", "U+2179",
  "U+217A", "U+217B", "U+217C", "U+217D", "U+217E", "U+217F", "Ↄ", "ↄ",
  "Ⓐ", "Ⓑ", "Ⓒ", "Ⓓ", "Ⓔ", "Ⓕ", "Ⓖ", "Ⓗ", "Ⓘ", "Ⓙ", "Ⓚ", "Ⓛ", "Ⓜ", "Ⓝ",
  "Ⓞ", "Ⓟ", "Ⓠ", "Ⓡ", "Ⓢ", "Ⓣ", "Ⓤ", "Ⓥ", "Ⓦ", "Ⓧ", "Ⓨ", "Ⓩ", "ⓐ", "ⓑ",
  "ⓒ", "ⓓ", "ⓔ", "ⓕ", "ⓖ", "ⓗ", "ⓘ", "ⓙ", "ⓚ", "ⓛ", "ⓜ", "ⓝ", "ⓞ", "ⓟ",
  "ⓠ", "ⓡ", "ⓢ", "ⓣ", "ⓤ", "ⓥ", "ⓦ", "ⓧ", "ⓨ", "ⓩ", "U+2C00", "U+2C01",
  "U+2C02", "U+2C03", "U+2C04", "U+2C05", "U+2C06", "U+2C07", "U+2C08",
  "U+2C09", "U+2C0A", "U+2C0B", "U+2C0C", "U+2C0D", "U+2C0E", "U+2C0F",
  "U+2C10", "U+2C11", "U+2C12", "U+2C13", "U+2C14", "U+2C15", "U+2C16",
  "U+2C17", "U+2C18", "U+2C19", "U+2C1A", "U+2C1B", "U+2C1C", "U+2C1D",
  "U+2C1E", "U+2C1F", "U+2C20", "U+2C21", "U+2C22", "U+2C23", "U+2C24",
  "U+2C25", "U+2C26", "U+2C27", "U+2C28", "U+2C29", "U+2C2A", "U+2C2B",
  "U+2C2C", "U+2C2D", "U+2C2E", "U+2C2F", "U+2C30", "U+2C31", "U+2C32",
  "U+2C33", "U+2C34", "U+2C35", "U+2C36", "U+2C37", "U+2C38", "U+2C39",
  "U+2C3A", "U+2C3B", "U+2C3C", "U+2C3D", "U+2C3E", "U+2C3F", "U+2C40",
  "U+2C41", "U+2C42", "U+2C43", "U+2C44", "U+2C45", "U+2C46", "U+2C47",
  "U+2C48", "U+2C49", "U+2C4A", "U+2C4B", "U+2C4C", "U+2C4D", "U+2C4E",
  "U+2C4F", "U+2C50", "U+2C51", "U+2C52", "U+2C53", "U+2C54", "U+2C55",
  "U+2C56", "U+2C57", "U+2C58", "U+2C59", "U+2C5A", "U+2C5B", "U+2C5C",
  "U+2C5D", "U+2C5E", "U+2C5F", "U+2C60", "U+2C61", "U+2C62", "U+2C63",
  "U+2C64", "U+2C65", "U+2C66", "U+2C67", "U+2C68", "U+2C69", "U+2C6A",
  "U+2C6B", "U+2C6C", "U+2C6D", "U+2C6E", "U+2C6F", "U+2C70", "U+2C72",
  "U+2C73", "U+2C75", "U+2C76", "U+2C7E", "U+2C7F", "Ⲁ", "ⲁ", "Ⲃ", "ⲃ",
  "Ⲅ", "ⲅ", "Ⲇ", "ⲇ", "Ⲉ", "ⲉ", "Ⲋ", "ⲋ", "Ⲍ", "ⲍ", "Ⲏ", "ⲏ", "Ⲑ", "ⲑ",
  "Ⲓ", "ⲓ", "Ⲕ", "ⲕ", "Ⲗ", "ⲗ", "Ⲙ", "ⲙ", "Ⲛ", "ⲛ", "Ⲝ", "ⲝ", "Ⲟ", "ⲟ",
  "Ⲡ", "ⲡ", "Ⲣ", "ⲣ", "Ⲥ", "ⲥ", "Ⲧ", "ⲧ", "Ⲩ", "ⲩ", "Ⲫ", "ⲫ", "Ⲭ", "ⲭ",
  "Ⲯ", "ⲯ", "Ⲱ", "ⲱ", "Ⲳ", "ⲳ", "Ⲵ", "ⲵ", "Ⲷ", "ⲷ", "Ⲹ", "ⲹ", "Ⲻ", "ⲻ",
  "Ⲽ", "ⲽ", "Ⲿ", "ⲿ", "Ⳁ", "ⳁ", "Ⳃ", "ⳃ", "Ⳅ", "ⳅ", "Ⳇ", "ⳇ", "Ⳉ", "ⳉ",
  "Ⳋ", "ⳋ", "Ⳍ", "ⳍ", "Ⳏ", "ⳏ", "Ⳑ", "ⳑ", "Ⳓ", "ⳓ", "Ⳕ", "ⳕ", "Ⳗ", "ⳗ",
  "Ⳙ", "ⳙ", "Ⳛ", "ⳛ", "Ⳝ", "ⳝ", "Ⳟ", "ⳟ", "Ⳡ", "ⳡ", "Ⳣ", "ⳣ", "Ⳬ", "ⳬ",
  "Ⳮ", "ⳮ", "Ⳳ", "ⳳ", "U+2D00", "U+2D01", "U+2D02", "U+2D03", "U+2D04",
  "U+2D05", "U+2D06", "U+2D07", "U+2D08", "U+2D09", "U+2D0A", "U+2D0B",
  "U+2D0C", "U+2D0D", "U+2D0E", "U+2D0F", "U+2D10", "U+2D11", "U+2D12",
  "U+2D13", "U+2D14", "U+2D15", "U+2D16", "U+2D17", "U+2D18", "U+2D19",
  "U+2D1A", "U+2D1B", "U+2D1C", "U+2D1D", "U+2D1E", "U+2D1F", "U+2D20",
  "U+2D21", "U+2D22", "U+2D23", "U+2D24", "U+2D25", "U+2D27", "U+2D2D",
  "U+A640", "U+A641", "U+A642", "U+A643", "U+A644", "U+A645", "U+A646",
  "U+A647", "U+A648", "U+A649", "U+A64A", "U+A64B", "U+A64C", "U+A64D",
  "U+A64E", "U+A64F", "U+A650", "U+A651", "U+A652", "U+A653", "U+A654",
  "U+A655", "U+A656", "U+A657", "U+A658", "U+A659", "U+A65A", "U+A65B",
  "U+A65C", "U+A65D", "U+A65E", "U+A65F", "U+A660", "U+A661", "U+A662",
  "U+A663", "U+A664", "U+A665", "U+A666", "U+A667", "U+A668", "U+A669",
  "U+A66A", "U+A66B", "U+A66C", "U+A66D", "Ꚁ", "ꚁ", "Ꚃ", "ꚃ", "Ꚅ", "ꚅ",
  "Ꚇ", "ꚇ", "Ꚉ", "ꚉ", "Ꚋ", "ꚋ", "Ꚍ", "ꚍ", "Ꚏ", "ꚏ", "Ꚑ", "ꚑ", "Ꚓ", "ꚓ",
  "Ꚕ", "ꚕ", "Ꚗ", "ꚗ", "Ꚙ", "ꚙ", "Ꚛ", "ꚛ", "U+A722", "U+A723", "U+A724",
  "U+A725", "U+A726", "U+A727", "U+A728", "U+A729", "U+A72A", "U+A72B",
  "U+A72C", "U+A72D", "U+A72E", "U+A72F", "U+A732", "U+A733", "U+A734",
  "U+A735", "U+A736", "U+A737", "U+A738", "U+A739", "U+A73A", "U+A73B",
  "U+A73C", "U+A73D", "U+A73E", "U+A73F", "U+A740", "U+A741", "U+A742",
  "U+A743", "U+A744", "U+A745", "U+A746", "U+A747", "U+A748", "U+A749",
  "U+A74A", "U+A74B", "U+A74C", "U+A74D", "U+A74E", "U+A74F", "U+A750",
  "U+A751", "U+A752", "U+A753", "U+A754", "U+A755", "U+A756", "U+A757",
  "U+A758", "U+A759", "U+A75A", "U+A75B", "U+A75C", "U+A75D", "U+A75E",
  "U+A75F", "U+A760", "U+A761", "U+A762", "U+A763", "U+A764", "U+A765",
  "U+A766", "U+A767", "U+A768", "U+A769", "U+A76A", "U+A76B", "U+A76C",
  "U+A76D", "U+A76E", "U+A76F", "U+A779", "U+A77A", "U+A77B", "U+A77C",
  "U+A77D", "U+A77E", "U+A77F", "Ꞁ", "ꞁ", "Ꞃ", "ꞃ", "Ꞅ", "ꞅ", "Ꞇ", "ꞇ",
  "Ꞌ", "ꞌ", "Ɥ", "Ꞑ", "ꞑ", "Ꞓ", "ꞓ", "ꞔ", "Ꞗ", "ꞗ", "Ꞙ", "ꞙ", "Ꞛ", "ꞛ",
  "Ꞝ", "ꞝ", "Ꞟ", "ꞟ", "Ꞡ", "ꞡ", "Ꞣ", "ꞣ", "Ꞥ", "ꞥ", "Ꞧ", "ꞧ", "Ꞩ", "ꞩ",
  "Ɦ", "Ɜ", "Ɡ", "Ɬ", "Ɪ", "Ʞ", "Ʇ", "Ʝ", "Ꭓ", "Ꞵ", "ꞵ", "Ꞷ", "ꞷ", "Ꞹ",
  "ꞹ", "Ꞻ", "ꞻ", "Ꞽ", "ꞽ", "Ꞿ", "ꞿ", "Ꟁ", "ꟁ", "Ꟃ", "ꟃ", "Ꞔ", "Ʂ", "Ᶎ",
  "Ꟈ", "ꟈ", "Ꟊ", "ꟊ", "Ꟑ", "ꟑ", "Ꟗ", "ꟗ", "Ꟙ", "ꟙ", "Ꟶ", "ꟶ", "U+AB53",
  "U+AB70", "U+AB71", "U+AB72", "U+AB73", "U+AB74", "U+AB75", "U+AB76",
  "U+AB77", "U+AB78", "U+AB79", "U+AB7A", "U+AB7B", "U+AB7C", "U+AB7D",
  "U+AB7E", "U+AB7F", "ꮀ", "ꮁ", "ꮂ", "ꮃ", "ꮄ", "ꮅ", "ꮆ", "ꮇ", "ꮈ", "ꮉ",
  "ꮊ", "ꮋ", "ꮌ", "ꮍ", "ꮎ", "ꮏ", "ꮐ", "ꮑ", "ꮒ", "ꮓ", "ꮔ", "ꮕ", "ꮖ", "ꮗ",
  "ꮘ", "ꮙ", "ꮚ", "ꮛ", "ꮜ", "ꮝ", "ꮞ", "ꮟ", "ꮠ", "ꮡ", "ꮢ", "ꮣ", "ꮤ", "ꮥ",
  "ꮦ", "ꮧ", "ꮨ", "ꮩ", "ꮪ", "ꮫ", "ꮬ", "ꮭ", "ꮮ", "ꮯ", "ꮰ", "ꮱ", "ꮲ", "ꮳ",
  "ꮴ", "ꮵ", "ꮶ", "ꮷ", "ꮸ", "ꮹ", "ꮺ", "ꮻ", "ꮼ", "ꮽ", "ꮾ", "ꮿ", "U+FB00",
  "U+FB01", "U+FB02", "U+FB03", "U+FB04", "U+FB05", "U+FB06", "U+FB13",
  "U+FB14", "U+FB15", "U+FB16", "U+FB17", "U+FF21", "U+FF22", "U+FF23",
  "U+FF24", "U+FF25", "U+FF26", "U+FF27", "U+FF28", "U+FF29", "U+FF2A",
  "U+FF2B", "U+FF2C", "U+FF2D", "U+FF2E", "U+FF2F", "U+FF30", "U+FF31",
  "U+FF32", "U+FF33", "U+FF34", "U+FF35", "U+FF36", "U+FF37", "U+FF38",
  "U+FF39", "U+FF3A", "U+FF41", "U+FF42", "U+FF43", "U+FF44", "U+FF45",
  "U+FF46", "U+FF47", "U+FF48", "U+FF49", "U+FF4A", "U+FF4B", "U+FF4C",
  "U+FF4D", "U+FF4E", "U+FF4F", "U+FF50", "U+FF51", "U+FF52", "U+FF53",
  "U+FF54", "U+FF55", "U+FF56", "U+FF57", "U+FF58", "U+FF59", "U+FF5A",
  "U+10400", "U+10401", "U+10402", "U+10403", "U+10404", "U+10405",
  "U+10406", "U+10407", "U+10408", "U+10409", "U+1040A", "U+1040B",
  "U+1040C", "U+1040D", "U+1040E", "U+1040F", "U+10410", "U+10411",
  "U+10412", "U+10413", "U+10414", "U+10415", "U+10416", "U+10417",
  "U+10418", "U+10419", "U+1041A", "U+1041B", "U+1041C", "U+1041D",
  "U+1041E", "U+1041F", "U+10420", "U+10421", "U+10422", "U+10423",
  "U+10424", "U+10425", "U+10426", "U+10427", "U+10428", "U+10429",
  "U+1042A", "U+1042B", "U+1042C", "U+1042D", "U+1042E", "U+1042F",
  "U+10430", "U+10431", "U+10432", "U+10433", "U+10434", "U+10435",
  "U+10436", "U+10437", "U+10438", "U+10439", "U+1043A", "U+1043B",
  "U+1043C", "U+1043D", "U+1043E", "U+1043F", "U+10440", "U+10441",
  "U+10442", "U+10443", "U+10444", "U+10445", "U+10446", "U+10447",
  "U+10448", "U+10449", "U+1044A", "U+1044B", "U+1044C", "U+1044D",
  "U+1044E", "U+1044F", "U+104B0", "U+104B1", "U+104B2", "U+104B3",
  "U+104B4", "U+104B5", "U+104B6", "U+104B7", "U+104B8", "U+104B9",
  "U+104BA", "U+104BB", "U+104BC", "U+104BD", "U+104BE", "U+104BF",
  "U+104C0", "U+104C1", "U+104C2", "U+104C3", "U+104C4", "U+104C5",
  "U+104C6", "U+104C7", "U+104C8", "U+104C9", "U+104CA", "U+104CB",
  "U+104CC", "U+104CD", "U+104CE", "U+104CF", "U+104D0", "U+104D1",
  "U+104D2", "U+104D3", "U+104D8", "U+104D9", "U+104DA", "U+104DB",
  "U+104DC", "U+104DD", "U+104DE", "U+104DF", "U+104E0", "U+104E1",
  "U+104E2", "U+104E3", "U+104E4", "U+104E5", "U+104E6", "U+104E7",
  "U+104E8", "U+104E9", "U+104EA", "U+104EB", "U+104EC", "U+104ED",
  "U+104EE", "U+104EF", "U+104F0", "U+104F1", "U+104F2", "U+104F3",
  "U+104F4", "U+104F5", "U+104F6", "U+104F7", "U+104F8", "U+104F9",
  "U+104FA", "U+104FB", "U+10570", "U+10571", "U+10572", "U+10573",
  "U+10574", "U+10575", "U+10576", "U+10577", "U+10578", "U+10579",
  "U+1057A", "U+1057C", "U+1057D", "U+1057E", "U+1057F", "U+10580",
  "U+10581", "U+10582", "U+10583", "U+10584", "U+10585", "U+10586",
  "U+10587", "U+10588", "U+10589", "U+1058A", "U+1058C", "U+1058D",
  "U+1058E", "U+1058F", "U+10590", "U+10591", "U+10592", "U+10594",
  "U+10595", "U+10597", "U+10598", "U+10599", "U+1059A", "U+1059B",
  "U+1059C", "U+1059D", "U+1059E", "U+1059F", "U+105A0", "U+105A1",
  "U+105A3", "U+105A4", "U+105A5", "U+105A6", "U+105A7", "U+105A8",
  "U+105A9", "U+105AA", "U+105AB", "U+105AC", "U+105AD", "U+105AE",
  "U+105AF", "U+105B0", "U+105B1", "U+105B3", "U+105B4", "U+105B5",
  "U+105B6", "U+105B7", "U+105B8", "U+105B9", "U+105BB", "U+105BC",
  "U+10C80", "U+10C81", "U+10C82", "U+10C83", "U+10C84", "U+10C85",
  "U+10C86", "U+10C87", "U+10C88", "U+10C89", "U+10C8A", "U+10C8B",
  "U+10C8C", "U+10C8D", "U+10C8E", "U+10C8F", "U+10C90", "U+10C91",
  "U+10C92", "U+10C93", "U+10C94", "U+10C95", "U+10C96", "U+10C97",
  "U+10C98", "U+10C99", "U+10C9A", "U+10C9B", "U+10C9C", "U+10C9D",
  "U+10C9E", "U+10C9F", "U+10CA0", "U+10CA1", "U+10CA2", "U+10CA3",
  "U+10CA4", "U+10CA5", "U+10CA6", "U+10CA7", "U+10CA8", "U+10CA9",
  "U+10CAA", "U+10CAB", "U+10CAC", "U+10CAD", "U+10CAE", "U+10CAF",
  "U+10CB0", "U+10CB1", "U+10CB2", "U+10CC0", "U+10CC1", "U+10CC2",
  "U+10CC3", "U+10CC4", "U+10CC5", "U+10CC6", "U+10CC7", "U+10CC8",
  "U+10CC9", "U+10CCA", "U+10CCB", "U+10CCC", "U+10CCD", "U+10CCE",
  "U+10CCF", "U+10CD0", "U+10CD1", "U+10CD2", "U+10CD3", "U+10CD4",
  "U+10CD5", "U+10CD6", "U+10CD7", "U+10CD8", "U+10CD9", "U+10CDA",
  "U+10CDB", "U+10CDC", "U+10CDD", "U+10CDE", "U+10CDF", "U+10CE0",
  "U+10CE1", "U+10CE2", "U+10CE3", "U+10CE4", "U+10CE5", "U+10CE6",
  "U+10CE7", "U+10CE8", "U+10CE9", "U+10CEA", "U+10CEB", "U+10CEC",
  "U+10CED", "U+10CEE", "U+10CEF", "U+10CF0", "U+10CF1", "U+10CF2",
  "U+118A0", "U+118A1", "U+118A2", "U+118A3", "U+118A4", "U+118A5",
  "U+118A6", "U+118A7", "U+118A8", "U+118A9", "U+118AA", "U+118AB",
  "U+118AC", "U+118AD", "U+118AE", "U+118AF", "U+118B0", "U+118B1",
  "U+118B2", "U+118B3", "U+118B4", "U+118B5", "U+118B6", "U+118B7",
  "U+118B8", "U+118B9", "U+118BA", "U+118BB", "U+118BC", "U+118BD",
  "U+118BE", "U+118BF", "U+118C0", "U+118C1", "U+118C2", "U+118C3",
  "U+118C4", "U+118C5", "U+118C6", "U+118C7", "U+118C8", "U+118C9",
  "U+118CA", "U+118CB", "U+118CC", "U+118CD", "U+118CE", "U+118CF",
  "U+118D0", "U+118D1", "U+118D2", "U+118D3", "U+118D4", "U+118D5",
  "U+118D6", "U+118D7", "U+118D8", "U+118D9", "U+118DA", "U+118DB",
  "U+118DC", "U+118DD", "U+118DE", "U+118DF", "U+16E40", "U+16E41",
  "U+16E42", "U+16E43", "U+16E44", "U+16E45", "U+16E46", "U+16E47",
  "U+16E48", "U+16E49", "U+16E4A", "U+16E4B", "U+16E4C", "U+16E4D",
  "U+16E4E", "U+16E4F", "U+16E50", "U+16E51", "U+16E52", "U+16E53",
  "U+16E54", "U+16E55", "U+16E56", "U+16E57", "U+16E58", "U+16E59",
  "U+16E5A", "U+16E5B", "U+16E5C", "U+16E5D", "U+16E5E", "U+16E5F",
  "U+16E60", "U+16E61", "U+16E62", "U+16E63", "U+16E64", "U+16E65",
  "U+16E66", "U+16E67", "U+16E68", "U+16E69", "U+16E6A", "U+16E6B",
  "U+16E6C", "U+16E6D", "U+16E6E", "U+16E6F", "U+16E70", "U+16E71",
  "U+16E72", "U+16E73", "U+16E74", "U+16E75", "U+16E76", "U+16E77",
  "U+16E78", "U+16E79", "U+16E7A", "U+16E7B", "U+16E7C", "U+16E7D",
  "U+16E7E", "U+16E7F", "U+1E900", "U+1E901", "U+1E902", "U+1E903",
  "U+1E904", "U+1E905", "U+1E906", "U+1E907", "U+1E908", "U+1E909",
  "U+1E90A", "U+1E90B", "U+1E90C", "U+1E90D", "U+1E90E", "U+1E90F",
  "U+1E910", "U+1E911", "U+1E912", "U+1E913", "U+1E914", "U+1E915",
  "U+1E916", "U+1E917", "U+1E918", "U+1E919", "U+1E91A", "U+1E91B",
  "U+1E91C", "U+1E91D", "U+1E91E", "U+1E91F", "U+1E920", "U+1E921",
  "U+1E922", "U+1E923", "U+1E924", "U+1E925", "U+1E926", "U+1E927",
  "U+1E928", "U+1E929", "U+1E92A", "U+1E92B", "U+1E92C", "U+1E92D",
  "U+1E92E", "U+1E92F", "U+1E930", "U+1E931", "U+1E932", "U+1E933",
  "U+1E934", "U+1E935", "U+1E936", "U+1E937", "U+1E938", "U+1E939",
  "U+1E93A", "U+1E93B", "U+1E93C", "U+1E93D", "U+1E93E", "U+1E93F",
  "U+1E940", "U+1E941", "U+1E942", "U+1E943">>
CaseTo == <<
  <<<<"A">>, <<"a">>, <<"A">>>>, <<<<"B">>, <<"b">>, <<"B">>>>,
  <<<<"C">>, <<"c">>, <<"C">>>>, <<<<"D">>, <<"d">>, <<"D">>>>,
  <<<<"E">>, <<"e">>, <<"E">>>>, <<<<"F">>, <<"f">>, <<"F">>>>,
  <<<<"G">>, <<"g">>, <<"G">>>>, <<<<"H">>, <<"h">>, <<"H">>>>,
  <<<<"I">>, <<"i">>, <<"I">>>>, <<<<"J">>, <<"j">>, <<"J">>>>,
  <<<<"K">>, <<"k">>, <<"K">>>>, <<<<"L">>, <<"l">>, <<"L">>>>,
  <<<<"M">>, <<"m">>, <<"M">>>>, <<<<"N">>, <<"n">>, <<"N">>>>,
  <<<<"O">>, <<"o">>, <<"O">>>>, <<<<"P">>, <<"p">>, <<"P">>>>,
  <<<<"Q">>, <<"q">>, <<"Q">>>>, <<<<"R">>, <<"r">>, <<"R">>>>,
  <<<<"S">>, <<"s">>, <<"S">>>>, <<<<"T">>, <<"t">>, <<"T">>>>,
  <<<<"U">>, <<"u">>, <<"U">>>>, <<<<"V">>, <<"v">>, <<"V">>>>,
  <<<<"W">>, <<"w">>, <<"W">>>>, <<<<"X">>, <<"x">>, <<"X">>>>,
  <<<<"Y">>, <<"y">>, <<"Y">>>>, <<<<"Z">>, <<"z">>, <<"Z">>>>,
  <<<<"A">>, <<"a">>, <<"A">>>>, <<<<"B">>, <<"b">>, <<"B">>>>,
  <<<<"C">>, <<"c">>, <<"C">>>>, <<<<"D">>, <<"d">>, <<"D">>>>,
  <<<<"E">>, <<"e">>, <<"E">>>>, <<<<"F">>, <<"f">>, <<"F">>>>,
  <<<<"G">>, <<"g">>, <<"G">>>>, <<<<"H">>, <<"h">>, <<"H">>>>,
  <<<<"I">>, <<"i">>, <<"I">>>>, <<<<"J">>, <<"j">>, <<"J">>>>,
  <<<<"K">>, <<"k">>, <<"K">>>>, <<<<"L">>, <<"l">>, <<"L">>>>,
  <<<<"M">>, <<"m">>, <<"M">>>>, <<<<"N">>, <<"n">>, <<"N">>>>,
  <<<<"O">>, <<"o">>, <<"O">>>>, <<<<"P">>, <<"p">>, <<"P">>>>,
  <<<<"Q">>, <<"q">>, <<"Q">>>>, <<<<"R">>, <<"r">>, <<"R">>>>,
  <<<<"S">>, <<"s">>, <<"S">>>>, <<<<"T">>, <<"t">>, <<"T">>>>,
  <<<<"U">>, <<"u">>, <<"U">>>>, <<<<"V">>, <<"v">>, <<"V">>>>,
  <<<<"W">>, <<"w">>, <<"W">>>>, <<<<"X">>, <<"x">>, <<"X">>>>,
  <<<<"Y">>, <<"y">>, <<"Y">>>>, <<<<"Z">>, <<"z">>, <<"Z">>>>,
  <<<<"Μ">>, <<"µ">>, <<"Μ">>>>, <<<<"À">>, <<"à">>, <<"À">>>>,
  <<<<"Á">>, <<"á">>, <<"Á">>>>, <<<<"Â">>, <<"â">>, <<"Â">>>>,
  <<<<"Ã">>, <<"ã">>, <<"Ã">>>>, <<<<"Ä">>, <<"ä">>, <<"Ä">>>>,
  <<<<"Å">>, <<"å">>, <<"Å">>>>, <<<<"Æ">>, <<"æ">>, <<"Æ">>>>,
  <<<<"Ç">>, <<"ç">>, <<"Ç">>>>, <<<<"È">>, <<"è">>, <<"È">>>>,
  <<<<"É">>, <<"é">>, <<"É">>>>, <<<<"Ê">>, <<"ê">>, <<"Ê">>>>,
  <<<<"Ë">>, <<"ë">>, <<"Ë">>>>, <<<<"Ì">>, <<"ì">>, <<"Ì">>>>,
  <<<<"Í">>, <<"í">>, <<"Í">>>>, <<<<"Î">>, <<"î">>, <<"Î">>>>,
  <<<<"Ï">>, <<"ï">>, <<"Ï">>>>, <<<<"Ð">>, <<"ð">>, <<"Ð">>>>,
  <<<<"Ñ">>, <<"ñ">>, <<"Ñ">>>>, <<<<"Ò">>, <<"ò">>, <<"Ò">>>>,
  <<<<"Ó">>, <<"ó">>, <<"Ó">>>>, <<<<"Ô">>, <<"ô">>, <<"Ô">>>>,
  <<<<"Õ">>, <<"õ">>, <<"Õ">>>>, <<<<"Ö">>, <<"ö">>, <<"Ö">>>>,
  <<<<"Ø">>, <<"ø">>, <<"Ø">>>>, <<<<"Ù">>, <<"ù">>, <<"Ù">>>>,
  <<<<"Ú">>, <<"ú">>, <<"Ú">>>>, <<<<"Û">>, <<"û">>, <<"Û">>>>,
  <<<<"Ü">>, <<"ü">>, <<"Ü">>>>, <<<<"Ý">>, <<"ý">>, <<"Ý">>>>,
  <<<<"Þ">>, <<"þ">>, <<"Þ">>>>, <<<<"S", "S">>, <<"ß">>, <<"S", "s">>>>,
  <<<<"À">>, <<"à">>, <<"À">>>>, <<<<"Á">>, <<"á">>, <<"Á">>>>,
  <<<<"Â">>, <<"â">>, <<"Â">>>>, <<<<"Ã">>, <<"ã">>, <<"Ã">>>>,
  <<<<"Ä">>, <<"ä">>, <<"Ä">>>>, <<<<"Å">>, <<"å">>, <<"Å">>>>,
  <<<<"Æ">>, <<"æ">>, <<"Æ">>>>, <<<<"Ç">>, <<"ç">>, <<"Ç">>>>,
  <<<<"È">>, <<"è">>, <<"È">>>>, <<<<"É">>, <<"é">>, <<"É">>>>,
  <<<<"Ê">>, <<"ê">>, <<"Ê">>>>, <<<<"Ë">>, <<"ë">>, <<"Ë">>>>,
  <<<<"Ì">>, <<"ì">>, <<"Ì">>>>, <<<<"Í">>, <<"í">>, <<"Í">>>>,
  <<<<"Î">>, <<"î">>, <<"Î">>>>, <<<<"Ï">>, <<"ï">>, <<"Ï">>>>,
  <<<<"Ð">>, <<"ð">>, <<"Ð">>>>, <<<<"Ñ">>, <<"ñ">>, <<"Ñ">>>>,
  <<<<"Ò">>, <<"ò">>, <<"Ò">>>>, <<<<"Ó">>, <<"ó">>, <<"Ó">>>>,
  <<<<"Ô">>, <<"ô">>, <<"Ô">>>>, <<<<"Õ">>, <<"õ">>, <<"Õ">>>>,
  <<<<"Ö">>, <<"ö">>, <<"Ö">>>>, <<<<"Ø">>, <<"ø">>, <<"Ø">>>>,
  <<<<"Ù">>, <<"ù">>, <<"Ù">>>>, <<<<"Ú">>, <<"ú">>, <<"Ú">>>>,
  <<<<"Û">>, <<"û">>, <<"Û">>>>, <<<<"Ü">>, <<"ü">>, <<"Ü">>>>,
  <<<<"Ý">>, <<"ý">>, <<"Ý">>>>, <<<<"Þ">>, <<"þ">>, <<"Þ">>>>,
  <<<<"U+0178">>, <<"ÿ">>, <<"U+0178">>>>,
  <<<<"U+0100">>, <<"U+0101">>, <<"U+0100">>>>,
  <<<<"U+0100">>, <<"U+0101">>, <<"U+0100">>>>,
  <<<<"U+0102">>, <<"U+0103">>, <<"U+0102">>>>,
  <<<<"U+0102">>, <<"U+0103">>, <<"U+0102">>>>,
  <<<<"U+0104">>, <<"U+0105">>, <<"U+0104">>>>,
  <<<<"U+0104">>, <<"U+0105">>, <<"U+0104">>>>,
  <<<<"U+0106">>, <<"U+0107">>, <<"U+0106">>>>,
  <<<<"U+0106">>, <<"U+0107">>, <<"U+0106">>>>,
  <<<<"U+0108">>, <<"U+0109">>, <<"U+0108">>>>,
  <<<<"U+0108">>, <<"U+0109">>, <<"U+0108">>>>,
  <<<<"U+010A">>, <<"U+010B">>, <<"U+010A">>>>,
  <<<<"U+010A">>, <<"U+010B">>, <<"U+010A">>>>,
  <<<<"U+010C">>, <<"U+010D">>, <<"U+010C">>>>,
  <<<<"U+010C">>, <<"U+010D">>, <<"U+010C">>>>,
  <<<<"U+010E">>, <<"U+010F">>, <<"U+010E">>>>,
  <<<<"U+010E">>, <<"U+010F">>, <<"U+010E">>>>,
  <<<<"U+0110">>, <<"U+0111">>, <<"U+0110">>>>,
  <<<<"U+0110">>, <<"U+0111">>, <<"U+0110">>>>,
  <<<<"U+0112">>, <<"U+0113">>, <<"U+0112">>>>,
  <<<<"U+0112">>, <<"U+0113">>, <<"U+0112">>>>,
  <<<<"U+0114">>, <<"U+0115">>, <<"U+0114">>>>,
  <<<<"U+0114">>, <<"U+0115">>, <<"U+0114">>>>,
  <<<<"U+0116">>, <<"U+0117">>, <<"U+0116">>>>,
  <<<<"U+0116">>, <<"U+0117">>, <<"U+0116">>>>,
  <<<<"U+0118">>, <<"U+0119">>, <<"U+0118">>>>,
  <<<<"U+0118">>, <<"U+0119">>, <<"U+0118">>>>,
  <<<<"U+011A">>, <<"U+011B">>, <<"U+011A">>>>,
  <<<<"U+011A">>, <<"U+011B">>, <<"U+011A">>>>,
  <<<<"U+011C">>, <<"U+011D">>, <<"U+011C">>>>,
  <<<<"U+011C">>, <<"U+011D">>, <<"U+011C">>>>,
  <<<<"U+011E">>, <<"U+011F">>, <<"U+011E">>>>,
  <<<<"U+011E">>, <<"U+011F">>, <<"U+011E">>>>,
  <<<<"U+0120">>, <<"U+0121">>, <<"U+0120">>>>,
  <<<<"U+0120">>, <<"U+0121">>, <<"U+0120">>>>,
  <<<<"U+0122">>, <<"U+0123">>, <<"U+0122">>>>,
  <<<<"U+0122">>, <<"U+0123">>, <<"U+0122">>>>,
  <<<<"U+0124">>, <<"U+0125">>, <<"U+0124">>>>,
  <<<<"U+0124">>, <<"U+0125">>, <<"U+0124">>>>,
  <<<<"U+0126">>, <<"U+0127">>, <<"U+0126">>>>,
  <<<<"U+0126">>, <<"U+0127">>, <<"U+0126">>>>,
  <<<<"U+0128">>, <<"U+0129">>, <<"U+0128">>>>,
  <<<<"U+0128">>, <<"U+0129">>, <<"U+0128">>>>,
  <<<<"U+012A">>, <<"U+012B">>, <<"U+012A">>>>,
  <<<<"U+012A">>, <<"U+012B">>, <<"U+012A">>>>,
  <<<<"U+012C">>, <<"U+012D">>, <<"U+012C">>>>,
  <<<<"U+012C">>, <<"U+012D">>, <<"U+012C">>>>,
  <<<<"U+012E">>, <<"U+012F">>, <<"U+012E">>>>,
  <<<<"U+012E">>, <<"U+012F">>, <<"U+012E">>>>,
  <<<<"U+0130">>, <<"i", "U+0307">>, <<"U+0130">>>>,
  <<<<"I">>, <<"U+0131">>, <<"I">>>>,
  <<<<"U+0132">>, <<"U+0133">>, <<"U+0132">>>>,
  <<<<"U+0132">>, <<"U+0133">>, <<"U+0132">>>>,
  <<<<"U+0134">>, <<"U+0135">>, <<"U+0134">>>>,
  <<<<"U+0134">>, <<"U+0135">>, <<"U+0134">>>>,
  <<<<"U+0136">>, <<"U+0137">>, <<"U+0136">>>>,
  <<<<"U+0136">>, <<"U+0137">>, <<"U+0136">>>>,
  <<<<"U+0139">>, <<"U+013A">>, <<"U+0139">>>>,
  <<<<"U+0139">>, <<"U+013A">>, <<"U+0139">>>>,
  <<<<"U+013B">>, <<"U+013C">>, <<"U+013B">>>>,
  <<<<"U+013B">>, <<"U+013C">>, <<"U+013B">>>>,
  <<<<"U+013D">>, <<"U+013E">>, <<"U+013D">>>>,
  <<<<"U+013D">>, <<"U+013E">>, <<"U+013D">>>>,
  <<<<"U+013F">>, <<"U+0140">>, <<"U+013F">>>>,
  <<<<"U+013F">>, <<"U+0140">>, <<"U+013F">>>>,
  <<<<"U+0141">>, <<"U+0142">>, <<"U+0141">>>>,
  <<<<"U+0141">>, <<"U+0142">>, <<"U+0141">>>>,
  <<<<"U+0143">>, <<"U+0144">>, <<"U+0143">>>>,
  <<<<"U+0143">>, <<"U+0144">>, <<"U+0143">>>>,
  <<<<"U+0145">>, <<"U+0146">>, <<"U+0145">>>>,
  <<<<"U+0145">>, <<"U+0146">>, <<"U+0145">>>>,
  <<<<"U+0147">>, <<"U+0148">>, <<"U+0147">>>>,
  <<<<"U+0147">>, <<"U+0148">>, <<"U+0147">>>>,
  <<<<"ʼ", "N">>, <<"U+0149">>, <<"ʼ", "N">>>>,
  <<<<"U+014A">>, <<"U+014B">>, <<"U+014A">>>>,
  <<<<"U+014A">>, <<"U+014B">>, <<"U+014A">>>>,
  <<<<"U+014C">>, <<"U+014D">>, <<"U+014C">>>>,
  <<<<"U+014C">>, <<"U+014D">>, <<"U+014C">>>>,
  <<<<"U+014E">>, <<"U+014F">>, <<"U+014E">>>>,
  <<<<"U+014E">>, <<"U+014F">>, <<"U+014E">>>>,
  <<<<"U+0150">>, <<"U+0151">>, <<"U+0150">>>>,
  <<<<"U+0150">>, <<"U+0151">>, <<"U+0150">>>>,
  <<<<"U+0152">>, <<"U+0153">>, <<"U+0152">>>>,
  <<<<"U+0152">>, <<"U+0153">>, <<"U+0152">>>>,
  <<<<"U+0154">>, <<"U+0155">>, <<"U+0154">>>>,
  <<<<"U+0154">>, <<"U+0155">>, <<"U+0154">>>>,
  <<<<"U+0156">>, <<"U+0157">>, <<"U+0156">>>>,
  <<<<"U+0156">>, <<"U+0157">>, <<"U+0156">>>>,
  <<<<"U+0158">>, <<"U+0159">>, <<"U+0158">>>>,
  <<<<"U+0158">>, <<"U+0159">>, <<"U+0158">>>>,
  <<<<"U+015A">>, <<"U+015B">>, <<"U+015A">>>>,
  <<<<"U+015A">>, <<"U+015B">>, <<"U+015A">>>>,
  <<<<"U+015C">>, <<"U+015D">>, <<"U+015C">>>>,
  <<<<"U+015C">>, <<"U+015D">>, <<"U+015C">>>>,
  <<<<"U+015E">>, <<"U+015F">>, <<"U+015E">>>>,
  <<<<"U+015E">>, <<"U+015F">>, <<"U+015E">>>>,
  <<<<"U+0160">>, <<"U+0161">>, <<"U+0160">>>>,
  <<<<"U+0160">>, <<"U+0161">>, <<"U+0160">>>>,
  <<<<"U+0162">>, <<"U+0163">>, <<"U+0162">>>>,
  <<<<"U+0162">>, <<"U+0163">>, <<"U+0162">>>>,
  <<<<"U+0164">>, <<"U+0165">>, <<"U+0164">>>>,
  <<<<"U+0164">>, <<"U+0165">>, <<"U+0164">>>>,
  <<<<"U+0166">>, <<"U+0167">>, <<"U+0166">>>>,
  <<<<"U+0166">>, <<"U+0167">>, <<"U+0166">>>>,
  <<<<"U+0168">>, <<"U+0169">>, <<"U+0168">>>>,
  <<<<"U+0168">>, <<"U+0169">>, <<"U+0168">>>>,
  <<<<"U+016A">>, <<"U+016B">>, <<"U+016A">>>>,
  <<<<"U+016A">>, <<"U+016B">>, <<"U+016A">>>>,
  <<<<"U+016C">>, <<"U+016D">>, <<"U+016C">>>>,
  <<<<"U+016C">>, <<"U+016D">>, <<"U+016C">>>>,
  <<<<"U+016E">>, <<"U+016F">>, <<"U+016E">>>>,
  <<<<"U+016E">>, <<"U+016F">>, <<"U+016E">>>>,
  <<<<"U+0170">>, <<"U+0171">>, <<"U+0170">>>>,
  <<<<"U+0170">>, <<"U+0171">>, <<"U+0170">>>>,
  <<<<"U+0172">>, <<"U+0173">>, <<"U+0172">>>>,
  <<<<"U+0172">>, <<"U+0173">>, <<"U+0172">>>>,
  <<<<"U+0174">>, <<"U+0175">>, <<"U+0174">>>>,
  <<<<"U+0174">>, <<"U+0175">>, <<"U+0174">>>>,
  <<<<"U+0176">>, <<"U+0177">>, <<"U+0176">>>>,
  <<<<"U+0176">>, <<"U+0177">>, <<"U+0176">>>>,
  <<<<"U+0178">>, <<"ÿ">>, <<"U+0178">>>>,
  <<<<"U+0179">>, <<"U+017A">>, <<"U+0179">>>>,
  <<<<"U+0179">>, <<"U+017A">>, <<"U+0179">>>>,
  <<<<"U+017B">>, <<"U+017C">>, <<"U+017B">>>>,
  <<<<"U+017B">>, <<"U+017C">>, <<"U+017B">>>>,
  <<<<"U+017D">>, <<"U+017E">>, <<"U+017D">>>>,
  <<<<"U+017D">>, <<"U+017E">>, <<"U+017D">>>>,
  <<<<"S">>, <<"U+017F">>, <<"S">>>>,
  <<<<"U+0243">>, <<"ƀ">>, <<"U+0243">>>>,
  <<<<"Ɓ">>, <<"U+0253">>, <<"Ɓ">>>>, <<<<"Ƃ">>, <<"ƃ">>, <<"Ƃ">>>>,
  <<<<"Ƃ">>, <<"ƃ">>, <<"Ƃ">>>>, <<<<"Ƅ">>, <<"ƅ">>, <<"Ƅ">>>>,
  <<<<"Ƅ">>, <<"ƅ">>, <<"Ƅ">>>>, <<<<"Ɔ">>, <<"U+0254">>, <<"Ɔ">>>>,
  <<<<"Ƈ">>, <<"ƈ">>, <<"Ƈ">>>>, <<<<"Ƈ">>, <<"ƈ">>, <<"Ƈ">>>>,
  <<<<"Ɖ">>, <<"U+0256">>, <<"Ɖ">>>>, <<<<"Ɗ">>, <<"U+0257">>, <<"Ɗ">>>>,
  <<<<"Ƌ">>, <<"ƌ">>, <<"Ƌ">>>>, <<<<"Ƌ">>, <<"ƌ">>, <<"Ƌ">>>>,
  <<<<"Ǝ">>, <<"ǝ">>, <<"Ǝ">>>>, <<<<"Ə">>, <<"U+0259">>, <<"Ə">>>>,
  <<<<"Ɛ">>, <<"U+025B">>, <<"Ɛ">>>>, <<<<"Ƒ">>, <<"ƒ">>, <<"Ƒ">>>>,
  <<<<"Ƒ">>, <<"ƒ">>, <<"Ƒ">>>>, <<<<"Ɠ">>, <<"U+0260">>, <<"Ɠ">>>>,
  <<<<"Ɣ">>, <<"U+0263">>, <<"Ɣ">>>>, <<<<"Ƕ">>, <<"ƕ">>, <<"Ƕ">>>>,
  <<<<"Ɩ">>, <<"U+0269">>, <<"Ɩ">>>>, <<<<"Ɨ">>, <<"U+0268">>, <<"Ɨ">>>>,
  <<<<"Ƙ">>, <<"ƙ">>, <<"Ƙ">>>>, <<<<"Ƙ">>, <<"ƙ">>, <<"Ƙ">>>>,
  <<<<"U+023D">>, <<"ƚ">>, <<"U+023D">>>>,
  <<<<"Ɯ">>, <<"U+026F">>, <<"Ɯ">>>>, <<<<"Ɲ">>, <<"U+0272">>, <<"Ɲ">>>>,
  <<<<"U+0220">>, <<"ƞ">>, <<"U+0220">>>>,
  <<<<"Ɵ">>, <<"U+0275">>, <<"Ɵ">>>>, <<<<"Ơ">>, <<"ơ">>, <<"Ơ">>>>,
  <<<<"Ơ">>, <<"ơ">>, <<"Ơ">>>>, <<<<"Ƣ">>, <<"ƣ">>, <<"Ƣ">>>>,
  <<<<"Ƣ">>, <<"ƣ">>, <<"Ƣ">>>>, <<<<"Ƥ">>, <<"ƥ">>, <<"Ƥ">>>>,
  <<<<"Ƥ">>, <<"ƥ">>, <<"Ƥ">>>>, <<<<"Ʀ">>, <<"ʀ">>, <<"Ʀ">>>>,
  <<<<"Ƨ">>, <<"ƨ">>, <<"Ƨ">>>>, <<<<"Ƨ">>, <<"ƨ">>, <<"Ƨ">>>>,
  <<<<"Ʃ">>, <<"ʃ">>, <<"Ʃ">>>>, <<<<"Ƭ">>, <<"ƭ">>, <<"Ƭ">>>>,
  <<<<"Ƭ">>, <<"ƭ">>, <<"Ƭ">>>>, <<<<"Ʈ">>, <<"ʈ">>, <<"Ʈ">>>>,
  <<<<"Ư">>, <<"ư">>, <<"Ư">>>>, <<<<"Ư">>, <<"ư">>, <<"Ư">>>>,
  <<<<"Ʊ">>, <<"ʊ">>, <<"Ʊ">>>>, <<<<"Ʋ">>, <<"ʋ">>, <<"Ʋ">>>>,
  <<<<"Ƴ">>, <<"ƴ">>, <<"Ƴ">>>>, <<<<"Ƴ">>, <<"ƴ">>, <<"Ƴ">>>>,
  <<<<"Ƶ">>, <<"ƶ">>, <<"Ƶ">>>>, <<<<"Ƶ">>, <<"ƶ">>, <<"Ƶ">>>>,
  <<<<"Ʒ">>, <<"ʒ">>, <<"Ʒ">>>>, <<<<"Ƹ">>, <<"ƹ">>, <<"Ƹ">>>>,
  <<<<"Ƹ">>, <<"ƹ">>, <<"Ƹ">>>>, <<<<"Ƽ">>, <<"ƽ">>, <<"Ƽ">>>>,
  <<<<"Ƽ">>, <<"ƽ">>, <<"Ƽ">>>>, <<<<"Ƿ">>, <<"ƿ">>, <<"Ƿ">>>>,
  <<<<"Ǆ">>, <<"ǆ">>, <<"ǅ">>>>, <<<<"Ǆ">>, <<"ǆ">>, <<"ǅ">>>>,
  <<<<"Ǆ">>, <<"ǆ">>, <<"ǅ">>>>, <<<<"Ǉ">>, <<"ǉ">>, <<"ǈ">>>>,
  <<<<"Ǉ">>, <<"ǉ">>, <<"ǈ">>>>, <<<<"Ǉ">>, <<"ǉ">>, <<"ǈ">>>>,
  <<<<"Ǌ">>, <<"ǌ">>, <<"ǋ">>>>, <<<<"Ǌ">>, <<"ǌ">>, <<"ǋ">>>>,
  <<<<"Ǌ">>, <<"ǌ">>, <<"ǋ">>>>, <<<<"Ǎ">>, <<"ǎ">>, <<"Ǎ">>>>,
  <<<<"Ǎ">>, <<"ǎ">>, <<"Ǎ">>>>, <<<<"Ǐ">>, <<"ǐ">>, <<"Ǐ">>>>,
  <<<<"Ǐ">>, <<"ǐ">>, <<"Ǐ">>>>, <<<<"Ǒ">>, <<"ǒ">>, <<"Ǒ">>>>,
  <<<<"Ǒ">>, <<"ǒ">>, <<"Ǒ">>>>, <<<<"Ǔ">>, <<"ǔ">>, <<"Ǔ">>>>,
  <<<<"Ǔ">>, <<"ǔ">>, <<"Ǔ">>>>, <<<<"Ǖ">>, <<"ǖ">>, <<"Ǖ">>>>,
  <<<<"Ǖ">>, <<"ǖ">>, <<"Ǖ">>>>, <<<<"Ǘ">>, <<"ǘ">>, <<"Ǘ">>>>,
  <<<<"Ǘ">>, <<"ǘ">>, <<"Ǘ">>>>, <<<<"Ǚ">>, <<"ǚ">>, <<"Ǚ">>>>,
  <<<<"Ǚ">>, <<"ǚ">>, <<"Ǚ">>>>, <<<<"Ǜ">>, <<"ǜ">>, <<"Ǜ">>>>,
  <<<<"Ǜ">>, <<"ǜ">>, <<"Ǜ">>>>, <<<<"Ǝ">>, <<"ǝ">>, <<"Ǝ">>>>,
  <<<<"Ǟ">>, <<"ǟ">>, <<"Ǟ">>>>, <<<<"Ǟ">>, <<"ǟ">>, <<"Ǟ">>>>,
  <<<<"Ǡ">>, <<"ǡ">>, <<"Ǡ">>>>, <<<<"Ǡ">>, <<"ǡ">>, <<"Ǡ">>>>,
  <<<<"Ǣ">>, <<"ǣ">>, <<"Ǣ">>>>, <<<<"Ǣ">>, <<"ǣ">>, <<"Ǣ">>>>,
  <<<<"Ǥ">>, <<"ǥ">>, <<"Ǥ">>>>, <<<<"Ǥ">>, <<"ǥ">>, <<"Ǥ">>>>,
  <<<<"Ǧ">>, <<"ǧ">>, <<"Ǧ">>>>, <<<<"Ǧ">>, <<"ǧ">>, <<"Ǧ">>>>,
  <<<<"Ǩ">>, <<"ǩ">>, <<"Ǩ">>>>, <<<<"Ǩ">>, <<"ǩ">>, <<"Ǩ">>>>,
  <<<<"Ǫ">>, <<"ǫ">>, <<"Ǫ">>>>, <<<<"Ǫ">>, <<"ǫ">>, <<"Ǫ">>>>,
  <<<<"Ǭ">>, <<"ǭ">>, <<"Ǭ">>>>, <<<<"Ǭ">>, <<"ǭ">>, <<"Ǭ">>>>,
  <<<<"Ǯ">>, <<"ǯ">>, <<"Ǯ">>>>, <<<<"Ǯ">>, <<"ǯ">>, <<"Ǯ">>>>,
  <<<<"J", "U+030C">>, <<"ǰ">>, <<"J", "U+030C">>>>,
  <<<<"Ǳ">>, <<"ǳ">>, <<"ǲ">>>>, <<<<"Ǳ">>, <<"ǳ">>, <<"ǲ">>>>,
  <<<<"Ǳ">>, <<"ǳ">>, <<"ǲ">>>>, <<<<"Ǵ">>, <<"ǵ">>, <<"Ǵ">>>>,
  <<<<"Ǵ">>, <<"ǵ">>, <<"Ǵ">>>>, <<<<"Ƕ">>, <<"ƕ">>, <<"Ƕ">>>>,
  <<<<"Ƿ">>, <<"ƿ">>, <<"Ƿ">>>>, <<<<"Ǹ">>, <<"ǹ">>, <<"Ǹ">>>>,
  <<<<"Ǹ">>, <<"ǹ">>, <<"Ǹ">>>>, <<<<"Ǻ">>, <<"ǻ">>, <<"Ǻ">>>>,
  <<<<"Ǻ">>, <<"ǻ">>, <<"Ǻ">>>>, <<<<"Ǽ">>, <<"ǽ">>, <<"Ǽ">>>>,
  <<<<"Ǽ">>, <<"ǽ">>, <<"Ǽ">>>>, <<<<"Ǿ">>, <<"ǿ">>, <<"Ǿ">>>>,
  <<<<"Ǿ">>, <<"ǿ">>, <<"Ǿ">>>>,
  <<<<"U+0200">>, <<"U+0201">>, <<"U+0200">>>>,
  <<<<"U+0200">>, <<"U+0201">>, <<"U+0200">>>>,
  <<<<"U+0202">>, <<"U+0203">>, <<"U+0202">>>>,
  <<<<"U+0202">>, <<"U+0203">>, <<"U+0202">>>>,
  <<<<"U+0204">>, <<"U+0205">>, <<"U+0204">>>>,
  <<<<"U+0204">>, <<"U+0205">>, <<"U+0204">>>>,
  <<<<"U+0206">>, <<"U+0207">>, <<"U+0206">>>>,
  <<<<"U+0206">>, <<"U+0207">>, <<"U+0206">>>>,
  <<<<"U+0208">>, <<"U+0209">>, <<"U+0208">>>>,
  <<<<"U+0208">>, <<"U+0209">>, <<"U+0208">>>>,
  <<<<"U+020A">>, <<"U+020B">>, <<"U+020A">>>>,
  <<<<"U+020A">>, <<"U+020B">>, <<"U+020A">>>>,
  <<<<"U+020C">>, <<"U+020D">>, <<"U+020C">>>>,
  <<<<"U+020C">>, <<"U+020D">>, <<"U+020C">>>>,
  <<<<"U+020E">>, <<"U+020F">>, <<"U+020E">>>>,
  <<<<"U+020E">>, <<"U+020F">>, <<"U+020E">>>>,
  <<<<"U+0210">>, <<"U+0211">>, <<"U+0210">>>>,
  <<<<"U+0210">>, <<"U+0211">>, <<"U+0210">>>>,
  <<<<"U+0212">>, <<"U+0213">>, <<"U+0212">>>>,
  <<<<"U+0212">>, <<"U+0213">>, <<"U+0212">>>>,
  <<<<"U+0214">>, <<"U+0215">>, <<"U+0214">>>>,
  <<<<"U+0214">>, <<"U+0215">>, <<"U+0214">>>>,
  <<<<"U+0216">>, <<"U+0217">>, <<"U+0216">>>>,
  <<<<"U+0216">>, <<"U+0217">>, <<"U+0216">>>>,
  <<<<"U+0218">>, <<"U+0219">>, <<"U+0218">>>>,
  <<<<"U+0218">>, <<"U+0219">>, <<"U+0218">>>>,
  <<<<"U+021A">>, <<"U+021B">>, <<"U+021A">>>>,
  <<<<"U+021A">>, <<"U+021B">>, <<"U+021A">>>>,
  <<<<"U+021C">>, <<"U+021D">>, <<"U+021C">>>>,
  <<<<"U+021C">>, <<"U+021D">>, <<"U+021C">>>>,
  <<<<"U+021E">>, <<"U+021F">>, <<"U+021E">>>>,
  <<<<"U+021E">>, <<"U+021F">>, <<"U+021E">>>>,
  <<<<"U+0220">>, <<"ƞ">>, <<"U+0220">>>>,
  <<<<"U+0222">>, <<"U+0223">>, <<"U+0222">>>>,
  <<<<"U+0222">>, <<"U+0223">>, <<"U+0222">>>>,
  <<<<"U+0224">>, <<"U+0225">>, <<"U+0224">>>>,
  <<<<"U+0224">>, <<"U+0225">>, <<"U+0224">>>>,
  <<<<"U+0226">>, <<"U+0227">>, <<"U+0226">>>>,
  <<<<"U+0226">>, <<"U+0227">>, <<"U+0226">>>>,
  <<<<"U+0228">>, <<"U+0229">>, <<"U+0228">>>>,
  <<<<"U+0228">>, <<"U+0229">>, <<"U+0228">>>>,
  <<<<"U+022A">>, <<"U+022B">>, <<"U+022A">>>>,
  <<<<"U+022A">>, <<"U+022B">>, <<"U+022A">>>>,
  <<<<"U+022C">>, <<"U+022D">>, <<"U+022C">>>>,
  <<<<"U+022C">>, <<"U+022D">>, <<"U+022C">>>>,
  <<<<"U+022E">>, <<"U+022F">>, <<"U+022E">>>>,
  <<<<"U+022E">>, <<"U+022F">>, <<"U+022E">>>>,
  <<<<"U+0230">>, <<"U+0231">>, <<"U+0230">>>>,
  <<<<"U+0230">>, <<"U+0231">>, <<"U+0230">>>>,
  <<<<"U+0232">>, <<"U+0233">>, <<"U+0232">>>>,
  <<<<"U+0232">>, <<"U+0233">>, <<"U+0232">>>>,
  <<<<"U+023A">>, <<"U+2C65">>, <<"U+023A">>>>,
  <<<<"U+023B">>, <<"U+023C">>, <<"U+023B">>>>,
  <<<<"U+023B">>, <<"U+023C">>, <<"U+023B">>>>,
  <<<<"U+023D">>, <<"ƚ">>, <<"U+023D">>>>,
  <<<<"U+023E">>, <<"U+2C66">>, <<"U+023E">>>>,
  <<<<"U+2C7E">>, <<"U+023F">>, <<"U+2C7E">>>>,
  <<<<"U+2C7F">>, <<"U+0240">>, <<"U+2C7F">>>>,
  <<<<"U+0241">>, <<"U+0242">>, <<"U+0241">>>>,
  <<<<"U+0241">>, <<"U+0242">>, <<"U+0241">>>>,
  <<<<"U+0243">>, <<"ƀ">>, <<"U+0243">>>>,
  <<<<"U+0244">>, <<"ʉ">>, <<"U+0244">>>>,
  <<<<"U+0245">>, <<"ʌ">>, <<"U+0245">>>>,
  <<<<"U+0246">>, <<"U+0247">>, <<"U+0246">>>>,
  <<<<"U+0246">>, <<"U+0247">>, <<"U+0246">>>>,
  <<<<"U+0248">>, <<"U+0249">>, <<"U+0248">>>>,
  <<<<"U+0248">>, <<"U+0249">>, <<"U+0248">>>>,
  <<<<"U+024A">>, <<"U+024B">>, <<"U+024A">>>>,
  <<<<"U+024A">>, <<"U+024B">>, <<"U+024A">>>>,
  <<<<"U+024C">>, <<"U+024D">>, <<"U+024C">>>>,
  <<<<"U+024C">>, <<"U+024D">>, <<"U+024C">>>>,
  <<<<"U+024E">>, <<"U+024F">>, <<"U+024E">>>>,
  <<<<"U+024E">>, <<"U+024F">>, <<"U+024E">>>>,
  <<<<"U+2C6F">>, <<"U+0250">>, <<"U+2C6F">>>>,
  <<<<"U+2C6D">>, <<"U+0251">>, <<"U+2C6D">>>>,
  <<<<"U+2C70">>, <<"U+0252">>, <<"U+2C70">>>>,
  <<<<"Ɓ">>, <<"U+0253">>, <<"Ɓ">>>>, <<<<"Ɔ">>, <<"U+0254">>, <<"Ɔ">>>>,
  <<<<"Ɖ">>, <<"U+0256">>, <<"Ɖ">>>>, <<<<"Ɗ">>, <<"U+0257">>, <<"Ɗ">>>>,
  <<<<"Ə">>, <<"U+0259">>, <<"Ə">>>>, <<<<"Ɛ">>, <<"U+025B">>, <<"Ɛ">>>>,
  <<<<"Ɜ">>, <<"U+025C">>, <<"Ɜ">>>>, <<<<"Ɠ">>, <<"U+0260">>, <<"Ɠ">>>>,
  <<<<"Ɡ">>, <<"U+0261">>, <<"Ɡ">>>>, <<<<"Ɣ">>, <<"U+0263">>, <<"Ɣ">>>>,
  <<<<"Ɥ">>, <<"U+0265">>, <<"Ɥ">>>>, <<<<"Ɦ">>, <<"U+0266">>, <<"Ɦ">>>>,
  <<<<"Ɨ">>, <<"U+0268">>, <<"Ɨ">>>>, <<<<"Ɩ">>, <<"U+0269">>, <<"Ɩ">>>>,
  <<<<"Ɪ">>, <<"U+026A">>, <<"Ɪ">>>>,
  <<<<"U+2C62">>, <<"U+026B">>, <<"U+2C62">>>>,
  <<<<"Ɬ">>, <<"U+026C">>, <<"Ɬ">>>>, <<<<"Ɯ">>, <<"U+026F">>, <<"Ɯ">>>>,
  <<<<"U+2C6E">>, <<"U+0271">>, <<"U+2C6E">>>>,
  <<<<"Ɲ">>, <<"U+0272">>, <<"Ɲ">>>>, <<<<"Ɵ">>, <<"U+0275">>, <<"Ɵ">>>>,
  <<<<"U+2C64">>, <<"U+027D">>, <<"U+2C64">>>>,
  <<<<"Ʀ">>, <<"ʀ">>, <<"Ʀ">>>>, <<<<"Ʂ">>, <<"ʂ">>, <<"Ʂ">>>>,
  <<<<"Ʃ">>, <<"ʃ">>, <<"Ʃ">>>>, <<<<"Ʇ">>, <<"ʇ">>, <<"Ʇ">>>>,
  <<<<"Ʈ">>, <<"ʈ">>, <<"Ʈ">>>>, <<<<"U+0244">>, <<"ʉ">>, <<"U+0244">>>>,
  <<<<"Ʊ">>, <<"ʊ">>, <<"Ʊ">>>>, <<<<"Ʋ">>, <<"ʋ">>, <<"Ʋ">>>>,
  <<<<"U+0245">>, <<"ʌ">>, <<"U+0245">>>>, <<<<"Ʒ">>, <<"ʒ">>, <<"Ʒ">>>>,
  <<<<"Ʝ">>, <<"ʝ">>, <<"Ʝ">>>>, <<<<"Ʞ">>, <<"ʞ">>, <<"Ʞ">>>>,
  <<<<"Ι">>, <<"U+0345">>, <<"Ι">>>>,
  <<<<"U+0370">>, <<"U+0371">>, <<"U+0370">>>>,
  <<<<"U+0370">>, <<"U+0371">>, <<"U+0370">>>>,
  <<<<"U+0372">>, <<"U+0373">>, <<"U+0372">>>>,
  <<<<"U+0372">>, <<"U+0373">>, <<"U+0372">>>>,
  <<<<"U+0376">>, <<"U+0377">>, <<"U+0376">>>>,
  <<<<"U+0376">>, <<"U+0377">>, <<"U+0376">>>>,
  <<<<"Ͻ">>, <<"U+037B">>, <<"Ͻ">>>>, <<<<"Ͼ">>, <<"U+037C">>, <<"Ͼ">>>>,
  <<<<"Ͽ">>, <<"U+037D">>, <<"Ͽ">>>>,
  <<<<"U+037F">>, <<"ϳ">>, <<"U+037F">>>>, <<<<"Ά">>, <<"ά">>, <<"Ά">>>>,
  <<<<"Έ">>, <<"έ">>, <<"Έ">>>>, <<<<"Ή">>, <<"ή">>, <<"Ή">>>>,
  <<<<"Ί">>, <<"ί">>, <<"Ί">>>>, <<<<"Ό">>, <<"ό">>, <<"Ό">>>>,
  <<<<"Ύ">>, <<"ύ">>, <<"Ύ">>>>, <<<<"Ώ">>, <<"ώ">>, <<"Ώ">>>>,
  <<<<"Ι", "U+0308", "U+0301">>, <<"ΐ">>, <<"Ι", "U+0308", "U+0301">>>>,
  <<<<"Α">>, <<"α">>, <<"Α">>>>, <<<<"Β">>, <<"β">>, <<"Β">>>>,
  <<<<"Γ">>, <<"γ">>, <<"Γ">>>>, <<<<"Δ">>, <<"δ">>, <<"Δ">>>>,
  <<<<"Ε">>, <<"ε">>, <<"Ε">>>>, <<<<"Ζ">>, <<"ζ">>, <<"Ζ">>>>,
  <<<<"Η">>, <<"η">>, <<"Η">>>>, <<<<"Θ">>, <<"θ">>, <<"Θ">>>>,
  <<<<"Ι">>, <<"ι">>, <<"Ι">>>>, <<<<"Κ">>, <<"κ">>, <<"Κ">>>>,
  <<<<"Λ">>, <<"λ">>, <<"Λ">>>>, <<<<"Μ">>, <<"μ">>, <<"Μ">>>>,
  <<<<"Ν">>, <<"ν">>, <<"Ν">>>>, <<<<"Ξ">>, <<"ξ">>, <<"Ξ">>>>,
  <<<<"Ο">>, <<"ο">>, <<"Ο">>>>, <<<<"Π">>, <<"π">>, <<"Π">>>>,
  <<<<"Ρ">>, <<"ρ">>, <<"Ρ">>>>, <<<<"Σ">>, <<"σ">>, <<"Σ">>>>,
  <<<<"Τ">>, <<"τ">>, <<"Τ">>>>, <<<<"Υ">>, <<"υ">>, <<"Υ">>>>,
  <<<<"Φ">>, <<"φ">>, <<"Φ">>>>, <<<<"Χ">>, <<"χ">>, <<"Χ">>>>,
  <<<<"Ψ">>, <<"ψ">>, <<"Ψ">>>>, <<<<"Ω">>, <<"ω">>, <<"Ω">>>>,
  <<<<"Ϊ">>, <<"ϊ">>, <<"Ϊ">>>>, <<<<"Ϋ">>, <<"ϋ">>, <<"Ϋ">>>>,
  <<<<"Ά">>, <<"ά">>, <<"Ά">>>>, <<<<"Έ">>, <<"έ">>, <<"Έ">>>>,
  <<<<"Ή">>, <<"ή">>, <<"Ή">>>>, <<<<"Ί">>, <<"ί">>, <<"Ί">>>>,
  <<<<"Υ", "U+0308", "U+0301">>, <<"ΰ">>, <<"Υ", "U+0308", "U+0301">>>>,
  <<<<"Α">>, <<"α">>, <<"Α">>>>, <<<<"Β">>, <<"β">>, <<"Β">>>>,
  <<<<"Γ">>, <<"γ">>, <<"Γ">>>>, <<<<"Δ">>, <<"δ">>, <<"Δ">>>>,
  <<<<"Ε">>, <<"ε">>, <<"Ε">>>>, <<<<"Ζ">>, <<"ζ">>, <<"Ζ">>>>,
  <<<<"Η">>, <<"η">>, <<"Η">>>>, <<<<"Θ">>, <<"θ">>, <<"Θ">>>>,
  <<<<"Ι">>, <<"ι">>, <<"Ι">>>>, <<<<"Κ">>, <<"κ">>, <<"Κ">>>>,
  <<<<"Λ">>, <<"λ">>, <<"Λ">>>>, <<<<"Μ">>, <<"μ">>, <<"Μ">>>>,
  <<<<"Ν">>, <<"ν">>, <<"Ν">>>>, <<<<"Ξ">>, <<"ξ">>, <<"Ξ">>>>,
  <<<<"Ο">>, <<"ο">>, <<"Ο">>>>, <<<<"Π">>, <<"π">>, <<"Π">>>>,
  <<<<"Ρ">>, <<"ρ">>, <<"Ρ">>>>, <<<<"Σ">>, <<"ς">>, <<"Σ">>>>,
  <<<<"Σ">>, <<"σ">>, <<"Σ">>>>, <<<<"Τ">>, <<"τ">>, <<"Τ">>>>,
  <<<<"Υ">>, <<"υ">>, <<"Υ">>>>, <<<<"Φ">>, <<"φ">>, <<"Φ">>>>,
  <<<<"Χ">>, <<"χ">>, <<"Χ">>>>, <<<<"Ψ">>, <<"ψ">>, <<"Ψ">>>>,
  <<<<"Ω">>, <<"ω">>, <<"Ω">>>>, <<<<"Ϊ">>, <<"ϊ">>, <<"Ϊ">>>>,
  <<<<"Ϋ">>, <<"ϋ">>, <<"Ϋ">>>>, <<<<"Ό">>, <<"ό">>, <<"Ό">>>>,
  <<<<"Ύ">>, <<"ύ">>, <<"Ύ">>>>, <<<<"Ώ">>, <<"ώ">>, <<"Ώ">>>>,
  <<<<"Ϗ">>, <<"ϗ">>, <<"Ϗ">>>>, <<<<"Β">>, <<"ϐ">>, <<"Β">>>>,
  <<<<"Θ">>, <<"ϑ">>, <<"Θ">>>>, <<<<"Φ">>, <<"ϕ">>, <<"Φ">>>>,
  <<<<"Π">>, <<"ϖ">>, <<"Π">>>>, <<<<"Ϗ">>, <<"ϗ">>, <<"Ϗ">>>>,
  <<<<"Ϙ">>, <<"ϙ">>, <<"Ϙ">>>>, <<<<"Ϙ">>, <<"ϙ">>, <<"Ϙ">>>>,
  <<<<"Ϛ">>, <<"ϛ">>, <<"Ϛ">>>>, <<<<"Ϛ">>, <<"ϛ">>, <<"Ϛ">>>>,
  <<<<"Ϝ">>, <<"ϝ">>, <<"Ϝ">>>>, <<<<"Ϝ">>, <<"ϝ">>, <<"Ϝ">>>>,
  <<<<"Ϟ">>, <<"ϟ">>, <<"Ϟ">>>>, <<<<"Ϟ">>, <<"ϟ">>, <<"Ϟ">>>>,
  <<<<"Ϡ">>, <<"ϡ">>, <<"Ϡ">>>>, <<<<"Ϡ">>, <<"ϡ">>, <<"Ϡ">>>>,
  <<<<"Ϣ">>, <<"ϣ">>, <<"Ϣ">>>>, <<<<"Ϣ">>, <<"ϣ">>, <<"Ϣ">>>>,
  <<<<"Ϥ">>, <<"ϥ">>, <<"Ϥ">>>>, <<<<"Ϥ">>, <<"ϥ">>, <<"Ϥ">>>>,
  <<<<"Ϧ">>, <<"ϧ">>, <<"Ϧ">>>>, <<<<"Ϧ">>, <<"ϧ">>, <<"Ϧ">>>>,
  <<<<"Ϩ">>, <<"ϩ">>, <<"Ϩ">>>>, <<<<"Ϩ">>, <<"ϩ">>, <<"Ϩ">>>>,
  <<<<"Ϫ">>, <<"ϫ">>, <<"Ϫ">>>>, <<<<"Ϫ">>, <<"ϫ">>, <<"Ϫ">>>>,
  <<<<"Ϭ">>, <<"ϭ">>, <<"Ϭ">>>>, <<<<"Ϭ">>, <<"ϭ">>, <<"Ϭ">>>>,
  <<<<"Ϯ">>, <<"ϯ">>, <<"Ϯ">>>>, <<<<"Ϯ">>, <<"ϯ">>, <<"Ϯ">>>>,
  <<<<"Κ">>, <<"ϰ">>, <<"Κ">>>>, <<<<"Ρ">>, <<"ϱ">>, <<"Ρ">>>>,
  <<<<"Ϲ">>, <<"ϲ">>, <<"Ϲ">>>>, <<<<"U+037F">>, <<"ϳ">>, <<"U+037F">>>>,
  <<<<"ϴ">>, <<"θ">>, <<"ϴ">>>>, <<<<"Ε">>, <<"ϵ">>, <<"Ε">>>>,
  <<<<"Ϸ">>, <<"ϸ">>, <<"Ϸ">>>>, <<<<"Ϸ">>, <<"ϸ">>, <<"Ϸ">>>>,
  <<<<"Ϲ">>, <<"ϲ">>, <<"Ϲ">>>>, <<<<"Ϻ">>, <<"ϻ">>, <<"Ϻ">>>>,
  <<<<"Ϻ">>, <<"ϻ">>, <<"Ϻ">>>>, <<<<"Ͻ">>, <<"U+037B">>, <<"Ͻ">>>>,
  <<<<"Ͼ">>, <<"U+037C">>, <<"Ͼ">>>>, <<<<"Ͽ">>, <<"U+037D">>, <<"Ͽ">>>>,
  <<<<"U+0400">>, <<"U+0450">>, <<"U+0400">>>>,
  <<<<"U+0401">>, <<"U+0451">>, <<"U+0401">>>>,
  <<<<"U+0402">>, <<"U+0452">>, <<"U+0402">>>>,
  <<<<"U+0403">>, <<"U+0453">>, <<"U+0403">>>>,
  <<<<"U+0404">>, <<"U+0454">>, <<"U+0404">>>>,
  <<<<"U+0405">>, <<"U+0455">>, <<"U+0405">>>>,
  <<<<"U+0406">>, <<"U+0456">>, <<"U+0406">>>>,
  <<<<"U+0407">>, <<"U+0457">>, <<"U+0407">>>>,
  <<<<"U+0408">>, <<"U+0458">>, <<"U+0408">>>>,
  <<<<"U+0409">>, <<"U+0459">>, <<"U+0409">>>>,
  <<<<"U+040A">>, <<"U+045A">>, <<"U+040A">>>>,
  <<<<"U+040B">>, <<"U+045B">>, <<"U+040B">>>>,
  <<<<"U+040C">>, <<"U+045C">>, <<"U+040C">>>>,
  <<<<"U+040D">>, <<"U+045D">>, <<"U+040D">>>>,
  <<<<"U+040E">>, <<"U+045E">>, <<"U+040E">>>>,
  <<<<"U+040F">>, <<"U+045F">>, <<"U+040F">>>>,
  <<<<"U+0410">>, <<"U+0430">>, <<"U+0410">>>>,
  <<<<"U+0411">>, <<"U+0431">>, <<"U+0411">>>>,
  <<<<"U+0412">>, <<"U+0432">>, <<"U+0412">>>>,
  <<<<"U+0413">>, <<"U+0433">>, <<"U+0413">>>>,
  <<<<"U+0414">>, <<"U+0434">>, <<"U+0414">>>>,
  <<<<"U+0415">>, <<"U+0435">>, <<"U+0415">>>>,
  <<<<"U+0416">>, <<"U+0436">>, <<"U+0416">>>>,
  <<<<"U+0417">>, <<"U+0437">>, <<"U+0417">>>>,
  <<<<"U+0418">>, <<"U+0438">>, <<"U+0418">>>>,
  <<<<"U+0419">>, <<"U+0439">>, <<"U+0419">>>>,
  <<<<"U+041A">>, <<"U+043A">>, <<"U+041A">>>>,
  <<<<"U+041B">>, <<"U+043B">>, <<"U+041B">>>>,
  <<<<"U+041C">>, <<"U+043C">>, <<"U+041C">>>>,
  <<<<"U+041D">>, <<"U+043D">>, <<"U+041D">>>>,
  <<<<"U+041E">>, <<"U+043E">>, <<"U+041E">>>>,
  <<<<"U+041F">>, <<"U+043F">>, <<"U+041F">>>>,
  <<<<"U+0420">>, <<"U+0440">>, <<"U+0420">>>>,
  <<<<"U+0421">>, <<"U+0441">>, <<"U+0421">>>>,
  <<<<"U+0422">>, <<"U+0442">>, <<"U+0422">>>>,
  <<<<"U+0423">>, <<"U+0443">>, <<"U+0423">>>>,
  <<<<"U+0424">>, <<"U+0444">>, <<"U+0424">>>>,
  <<<<"U+0425">>, <<"U+0445">>, <<"U+0425">>>>,
  <<<<"U+0426">>, <<"U+0446">>, <<"U+0426">>>>,
  <<<<"U+0427">>, <<"U+0447">>, <<"U+0427">>>>,
  <<<<"U+0428">>, <<"U+0448">>, <<"U+0428">>>>,
  <<<<"U+0429">>, <<"U+0449">>, <<"U+0429">>>>,
  <<<<"U+042A">>, <<"U+044A">>, <<"U+042A">>>>,
  <<<<"U+042B">>, <<"U+044B">>, <<"U+042B">>>>,
  <<<<"U+042C">>, <<"U+044C">>, <<"U+042C">>>>,
  <<<<"U+042D">>, <<"U+044D">>, <<"U+042D">>>>,
  <<<<"U+042E">>, <<"U+044E">>, <<"U+042E">>>>,
  <<<<"U+042F">>, <<"U+044F">>, <<"U+042F">>>>,
  <<<<"U+0410">>, <<"U+0430">>, <<"U+0410">>>>,
  <<<<"U+0411">>, <<"U+0431">>, <<"U+0411">>>>,
  <<<<"U+0412">>, <<"U+0432">>, <<"U+0412">>>>,
  <<<<"U+0413">>, <<"U+0433">>, <<"U+0413">>>>,
  <<<<"U+0414">>, <<"U+0434">>, <<"U+0414">>>>,
  <<<<"U+0415">>, <<"U+0435">>, <<"U+0415">>>>,
  <<<<"U+0416">>, <<"U+0436">>, <<"U+0416">>>>,
  <<<<"U+0417">>, <<"U+0437">>, <<"U+0417">>>>,
  <<<<"U+0418">>, <<"U+0438">>, <<"U+0418">>>>,
  <<<<"U+0419">>, <<"U+0439">>, <<"U+0419">>>>,
  <<<<"U+041A">>, <<"U+043A">>, <<"U+041A">>>>,
  <<<<"U+041B">>, <<"U+043B">>, <<"U+041B">>>>,
  <<<<"U+041C">>, <<"U+043C">>, <<"U+041C">>>>,
  <<<<"U+041D">>, <<"U+043D">>, <<"U+041D">>>>,
  <<<<"U+041E">>, <<"U+043E">>, <<"U+041E">>>>,
  <<<<"U+041F">>, <<"U+043F">>, <<"U+041F">>>>,
  <<<<"U+0420">>, <<"U+0440">>, <<"U+0420">>>>,
  <<<<"U+0421">>, <<"U+0441">>, <<"U+0421">>>>,
  <<<<"U+0422">>, <<"U+0442">>, <<"U+0422">>>>,
  <<<<"U+0423">>, <<"U+0443">>, <<"U+0423">>>>,
  <<<<"U+0424">>, <<"U+0444">>, <<"U+0424">>>>,
  <<<<"U+0425">>, <<"U+0445">>, <<"U+0425">>>>,
  <<<<"U+0426">>, <<"U+0446">>, <<"U+0426">>>>,
  <<<<"U+0427">>, <<"U+0447">>, <<"U+0427">>>>,
  <<<<"U+0428">>, <<"U+0448">>, <<"U+0428">>>>,
  <<<<"U+0429">>, <<"U+0449">>, <<"U+0429">>>>,
  <<<<"U+042A">>, <<"U+044A">>, <<"U+042A">>>>,
  <<<<"U+042B">>, <<"U+044B">>, <<"U+042B">>>>,
  <<<<"U+042C">>, <<"U+044C">>, <<"U+042C">>>>,
  <<<<"U+042D">>, <<"U+044D">>, <<"U+042D">>>>,
  <<<<"U+042E">>, <<"U+044E">>, <<"U+042E">>>>,
  <<<<"U+042F">>, <<"U+044F">>, <<"U+042F">>>>,
  <<<<"U+0400">>, <<"U+0450">>, <<"U+0400">>>>,
  <<<<"U+0401">>, <<"U+0451">>, <<"U+0401">>>>,
  <<<<"U+0402">>, <<"U+0452">>, <<"U+0402">>>>,
  <<<<"U+0403">>, <<"U+0453">>, <<"U+0403">>>>,
  <<<<"U+0404">>, <<"U+0454">>, <<"U+0404">>>>,
  <<<<"U+0405">>, <<"U+0455">>, <<"U+0405">>>>,
  <<<<"U+0406">>, <<"U+0456">>, <<"U+0406">>>>,
  <<<<"U+0407">>, <<"U+0457">>, <<"U+0407">>>>,
  <<<<"U+0408">>, <<"U+0458">>, <<"U+0408">>>>,
  <<<<"U+0409">>, <<"U+0459">>, <<"U+0409">>>>,
  <<<<"U+040A">>, <<"U+045A">>, <<"U+040A">>>>,
  <<<<"U+040B">>, <<"U+045B">>, <<"U+040B">>>>,
  <<<<"U+040C">>, <<"U+045C">>, <<"U+040C">>>>,
  <<<<"U+040D">>, <<"U+045D">>, <<"U+040D">>>>,
  <<<<"U+040E">>, <<"U+045E">>, <<"U+040E">>>>,
  <<<<"U+040F">>, <<"U+045F">>, <<"U+040F">>>>,
  <<<<"U+0460">>, <<"U+0461">>, <<"U+0460">>>>,
  <<<<"U+0460">>, <<"U+0461">>, <<"U+0460">>>>,
  <<<<"U+0462">>, <<"U+0463">>, <<"U+0462">>>>,
  <<<<"U+0462">>, <<"U+0463">>, <<"U+0462">>>>,
  <<<<"U+0464">>, <<"U+0465">>, <<"U+0464">>>>,
  <<<<"U+0464">>, <<"U+0465">>, <<"U+0464">>>>,
  <<<<"U+0466">>, <<"U+0467">>, <<"U+0466">>>>,
  <<<<"U+0466">>, <<"U+0467">>, <<"U+0466">>>>,
  <<<<"U+0468">>, <<"U+0469">>, <<"U+0468">>>>,
  <<<<"U+0468">>, <<"U+0469">>, <<"U+0468">>>>,
  <<<<"U+046A">>, <<"U+046B">>, <<"U+046A">>>>,
  <<<<"U+046A">>, <<"U+046B">>, <<"U+046A">>>>,
  <<<<"U+046C">>, <<"U+046D">>, <<"U+046C">>>>,
  <<<<"U+046C">>, <<"U+046D">>, <<"U+046C">>>>,
  <<<<"U+046E">>, <<"U+046F">>, <<"U+046E">>>>,
  <<<<"U+046E">>, <<"U+046F">>, <<"U+046E">>>>,
  <<<<"U+0470">>, <<"U+0471">>, <<"U+0470">>>>,
  <<<<"U+0470">>, <<"U+0471">>, <<"U+0470">>>>,
  <<<<"U+0472">>, <<"U+0473">>, <<"U+0472">>>>,
  <<<<"U+0472">>, <<"U+0473">>, <<"U+0472">>>>,
  <<<<"U+0474">>, <<"U+0475">>, <<"U+0474">>>>,
  <<<<"U+0474">>, <<"U+0475">>, <<"U+0474">>>>,
  <<<<"U+0476">>, <<"U+0477">>, <<"U+0476">>>>,
  <<<<"U+0476">>, <<"U+0477">>, <<"U+0476">>>>,
  <<<<"U+0478">>, <<"U+0479">>, <<"U+0478">>>>,
  <<<<"U+0478">>, <<"U+0479">>, <<"U+0478">>>>,
  <<<<"U+047A">>, <<"U+047B">>, <<"U+047A">>>>,
  <<<<"U+047A">>, <<"U+047B">>, <<"U+047A">>>>,
  <<<<"U+047C">>, <<"U+047D">>, <<"U+047C">>>>,
  <<<<"U+047C">>, <<"U+047D">>, <<"U+047C">>>>,
  <<<<"U+047E">>, <<"U+047F">>, <<"U+047E">>>>,
  <<<<"U+047E">>, <<"U+047F">>, <<"U+047E">>>>,
  <<<<"Ҁ">>, <<"ҁ">>, <<"Ҁ">>>>, <<<<"Ҁ">>, <<"ҁ">>, <<"Ҁ">>>>,
  <<<<"Ҋ">>, <<"ҋ">>, <<"Ҋ">>>>, <<<<"Ҋ">>, <<"ҋ">>, <<"Ҋ">>>>,
  <<<<"Ҍ">>, <<"ҍ">>, <<"Ҍ">>>>, <<<<"Ҍ">>, <<"ҍ">>, <<"Ҍ">>>>,
  <<<<"Ҏ">>, <<"ҏ">>, <<"Ҏ">>>>, <<<<"Ҏ">>, <<"ҏ">>, <<"Ҏ">>>>,
  <<<<"Ґ">>, <<"ґ">>, <<"Ґ">>>>, <<<<"Ґ">>, <<"ґ">>, <<"Ґ">>>>,
  <<<<"Ғ">>, <<"ғ">>, <<"Ғ">>>>, <<<<"Ғ">>, <<"ғ">>, <<"Ғ">>>>,
  <<<<"Ҕ">>, <<"ҕ">>, <<"Ҕ">>>>, <<<<"Ҕ">>, <<"ҕ">>, <<"Ҕ">>>>,
  <<<<"Җ">>, <<"җ">>, <<"Җ">>>>, <<<<"Җ">>, <<"җ">>, <<"Җ">>>>,
  <<<<"Ҙ">>, <<"ҙ">>, <<"Ҙ">>>>, <<<<"Ҙ">>, <<"ҙ">>, <<"Ҙ">>>>,
  <<<<"Қ">>, <<"қ">>, <<"Қ">>>>, <<<<"Қ">>, <<"қ">>, <<"Қ">>>>,
  <<<<"Ҝ">>, <<"ҝ">>, <<"Ҝ">>>>, <<<<"Ҝ">>, <<"ҝ">>, <<"Ҝ">>>>,
  <<<<"Ҟ">>, <<"ҟ">>, <<"Ҟ">>>>, <<<<"Ҟ">>, <<"ҟ">>, <<"Ҟ">>>>,
  <<<<"Ҡ">>, <<"ҡ">>, <<"Ҡ">>>>, <<<<"Ҡ">>, <<"ҡ">>, <<"Ҡ">>>>,
  <<<<"Ң">>, <<"ң">>, <<"Ң">>>>, <<<<"Ң">>, <<"ң">>, <<"Ң">>>>,
  <<<<"Ҥ">>, <<"ҥ">>, <<"Ҥ">>>>, <<<<"Ҥ">>, <<"ҥ">>, <<"Ҥ">>>>,
  <<<<"Ҧ">>, <<"ҧ">>, <<"Ҧ">>>>, <<<<"Ҧ">>, <<"ҧ">>, <<"Ҧ">>>>,
  <<<<"Ҩ">>, <<"ҩ">>, <<"Ҩ">>>>, <<<<"Ҩ">>, <<"ҩ">>, <<"Ҩ">>>>,
  <<<<"Ҫ">>, <<"ҫ">>, <<"Ҫ">>>>, <<<<"Ҫ">>, <<"ҫ">>, <<"Ҫ">>>>,
  <<<<"Ҭ">>, <<"ҭ">>, <<"Ҭ">>>>, <<<<"Ҭ">>, <<"ҭ">>, <<"Ҭ">>>>,
  <<<<"Ү">>, <<"ү">>, <<"Ү">>>>, <<<<"Ү">>, <<"ү">>, <<"Ү">>>>,
  <<<<"Ұ">>, <<"ұ">>, <<"Ұ">>>>, <<<<"Ұ">>, <<"ұ">>, <<"Ұ">>>>,
  <<<<"Ҳ">>, <<"ҳ">>, <<"Ҳ">>>>, <<<<"Ҳ">>, <<"ҳ">>, <<"Ҳ">>>>,
  <<<<"Ҵ">>, <<"ҵ">>, <<"Ҵ">>>>, <<<<"Ҵ">>, <<"ҵ">>, <<"Ҵ">>>>,
  <<<<"Ҷ">>, <<"ҷ">>, <<"Ҷ">>>>, <<<<"Ҷ">>, <<"ҷ">>, <<"Ҷ">>>>,
  <<<<"Ҹ">>, <<"ҹ">>, <<"Ҹ">>>>, <<<<"Ҹ">>, <<"ҹ">>, <<"Ҹ">>>>,
  <<<<"Һ">>, <<"һ">>, <<"Һ">>>>, <<<<"Һ">>, <<"һ">>, <<"Һ">>>>,
  <<<<"Ҽ">>, <<"ҽ">>, <<"Ҽ">>>>, <<<<"Ҽ">>, <<"ҽ">>, <<"Ҽ">>>>,
  <<<<"Ҿ">>, <<"ҿ">>, <<"Ҿ">>>>, <<<<"Ҿ">>, <<"ҿ">>, <<"Ҿ">>>>,
  <<<<"Ӏ">>, <<"ӏ">>, <<"Ӏ">>>>, <<<<"Ӂ">>, <<"ӂ">>, <<"Ӂ">>>>,
  <<<<"Ӂ">>, <<"ӂ">>, <<"Ӂ">>>>, <<<<"Ӄ">>, <<"ӄ">>, <<"Ӄ">>>>,
  <<<<"Ӄ">>, <<"ӄ">>, <<"Ӄ">>>>, <<<<"Ӆ">>, <<"ӆ">>, <<"Ӆ">>>>,
  <<<<"Ӆ">>, <<"ӆ">>, <<"Ӆ">>>>, <<<<"Ӈ">>, <<"ӈ">>, <<"Ӈ">>>>,
  <<<<"Ӈ">>, <<"ӈ">>, <<"Ӈ">>>>, <<<<"Ӊ">>, <<"ӊ">>, <<"Ӊ">>>>,
  <<<<"Ӊ">>, <<"ӊ">>, <<"Ӊ">>>>, <<<<"Ӌ">>, <<"ӌ">>, <<"Ӌ">>>>,
  <<<<"Ӌ">>, <<"ӌ">>, <<"Ӌ">>>>, <<<<"Ӎ">>, <<"ӎ">>, <<"Ӎ">>>>,
  <<<<"Ӎ">>, <<"ӎ">>, <<"Ӎ">>>>, <<<<"Ӏ">>, <<"ӏ">>, <<"Ӏ">>>>,
  <<<<"Ӑ">>, <<"ӑ">>, <<"Ӑ">>>>, <<<<"Ӑ">>, <<"ӑ">>, <<"Ӑ">>>>,
  <<<<"Ӓ">>, <<"ӓ">>, <<"Ӓ">>>>, <<<<"Ӓ">>, <<"ӓ">>, <<"Ӓ">>>>,
  <<<<"Ӕ">>, <<"ӕ">>, <<"Ӕ">>>>, <<<<"Ӕ">>, <<"ӕ">>, <<"Ӕ">>>>,
  <<<<"Ӗ">>, <<"ӗ">>, <<"Ӗ">>>>, <<<<"Ӗ">>, <<"ӗ">>, <<"Ӗ">>>>,
  <<<<"Ә">>, <<"ә">>, <<"Ә">>>>, <<<<"Ә">>, <<"ә">>, <<"Ә">>>>,
  <<<<"Ӛ">>, <<"ӛ">>, <<"Ӛ">>>>, <<<<"Ӛ">>, <<"ӛ">>, <<"Ӛ">>>>,
  <<<<"Ӝ">>, <<"ӝ">>, <<"Ӝ">>>>, <<<<"Ӝ">>, <<"ӝ">>, <<"Ӝ">>>>,
  <<<<"Ӟ">>, <<"ӟ">>, <<"Ӟ">>>>, <<<<"Ӟ">>, <<"ӟ">>, <<"Ӟ">>>>,
  <<<<"Ӡ">>, <<"ӡ">>, <<"Ӡ">>>>, <<<<"Ӡ">>, <<"ӡ">>, <<"Ӡ">>>>,
  <<<<"Ӣ">>, <<"ӣ">>, <<"Ӣ">>>>, <<<<"Ӣ">>, <<"ӣ">>, <<"Ӣ">>>>,
  <<<<"Ӥ">>, <<"ӥ">>, <<"Ӥ">>>>, <<<<"Ӥ">>, <<"ӥ">>, <<"Ӥ">>>>,
  <<<<"Ӧ">>, <<"ӧ">>, <<"Ӧ">>>>, <<<<"Ӧ">>, <<"ӧ">>, <<"Ӧ">>>>,
  <<<<"Ө">>, <<"ө">>, <<"Ө">>>>, <<<<"Ө">>, <<"ө">>, <<"Ө">>>>,
  <<<<"Ӫ">>, <<"ӫ">>, <<"Ӫ">>>>, <<<<"Ӫ">>, <<"ӫ">>, <<"Ӫ">>>>,
  <<<<"Ӭ">>, <<"ӭ">>, <<"Ӭ">>>>, <<<<"Ӭ">>, <<"ӭ">>, <<"Ӭ">>>>,
  <<<<"Ӯ">>, <<"ӯ">>, <<"Ӯ">>>>, <<<<"Ӯ">>, <<"ӯ">>, <<"Ӯ">>>>,
  <<<<"Ӱ">>, <<"ӱ">>, <<"Ӱ">>>>, <<<<"Ӱ">>, <<"ӱ">>, <<"Ӱ">>>>,
  <<<<"Ӳ">>, <<"ӳ">>, <<"Ӳ">>>>, <<<<"Ӳ">>, <<"ӳ">>, <<"Ӳ">>>>,
  <<<<"Ӵ">>, <<"ӵ">>, <<"Ӵ">>>>, <<<<"Ӵ">>, <<"ӵ">>, <<"Ӵ">>>>,
  <<<<"Ӷ">>, <<"ӷ">>, <<"Ӷ">>>>, <<<<"Ӷ">>, <<"ӷ">>, <<"Ӷ">>>>,
  <<<<"Ӹ">>, <<"ӹ">>, <<"Ӹ">>>>, <<<<"Ӹ">>, <<"ӹ">>, <<"Ӹ">>>>,
  <<<<"Ӻ">>, <<"ӻ">>, <<"Ӻ">>>>, <<<<"Ӻ">>, <<"ӻ">>, <<"Ӻ">>>>,
  <<<<"Ӽ">>, <<"ӽ">>, <<"Ӽ">>>>, <<<<"Ӽ">>, <<"ӽ">>, <<"Ӽ">>>>,
  <<<<"Ӿ">>, <<"ӿ">>, <<"Ӿ">>>>, <<<<"Ӿ">>, <<"ӿ">>, <<"Ӿ">>>>,
  <<<<"U+0500">>, <<"U+0501">>, <<"U+0500">>>>,
  <<<<"U+0500">>, <<"U+0501">>, <<"U+0500">>>>,
  <<<<"U+0502">>, <<"U+0503">>, <<"U+0502">>>>,
  <<<<"U+0502">>, <<"U+0503">>, <<"U+0502">>>>,
  <<<<"U+0504">>, <<"U+0505">>, <<"U+0504">>>>,
  <<<<"U+0504">>, <<"U+0505">>, <<"U+0504">>>>,
  <<<<"U+0506">>, <<"U+0507">>, <<"U+0506">>>>,
  <<<<"U+0506">>, <<"U+0507">>, <<"U+0506">>>>,
  <<<<"U+0508">>, <<"U+0509">>, <<"U+0508">>>>,
  <<<<"U+0508">>, <<"U+0509">>, <<"U+0508">>>>,
  <<<<"U+050A">>, <<"U+050B">>, <<"U+050A">>>>,
  <<<<"U+050A">>, <<"U+050B">>, <<"U+050A">>>>,
  <<<<"U+050C">>, <<"U+050D">>, <<"U+050C">>>>,
  <<<<"U+050C">>, <<"U+050D">>, <<"U+050C">>>>,
  <<<<"U+050E">>, <<"U+050F">>, <<"U+050E">>>>,
  <<<<"U+050E">>, <<"U+050F">>, <<"U+050E">>>>,
  <<<<"U+0510">>, <<"U+0511">>, <<"U+0510">>>>,
  <<<<"U+0510">>, <<"U+0511">>, <<"U+0510">>>>,
  <<<<"U+0512">>, <<"U+0513">>, <<"U+0512">>>>,
  <<<<"U+0512">>, <<"U+0513">>, <<"U+0512">>>>,
  <<<<"U+0514">>, <<"U+0515">>, <<"U+0514">>>>,
  <<<<"U+0514">>, <<"U+0515">>, <<"U+0514">>>>,
  <<<<"U+0516">>, <<"U+0517">>, <<"U+0516">>>>,
  <<<<"U+0516">>, <<"U+0517">>, <<"U+0516">>>>,
  <<<<"U+0518">>, <<"U+0519">>, <<"U+0518">>>>,
  <<<<"U+0518">>, <<"U+0519">>, <<"U+0518">>>>,
  <<<<"U+051A">>, <<"U+051B">>, <<"U+051A">>>>,
  <<<<"U+051A">>, <<"U+051B">>, <<"U+051A">>>>,
  <<<<"U+051C">>, <<"U+051D">>, <<"U+051C">>>>,
  <<<<"U+051C">>, <<"U+051D">>, <<"U+051C">>>>,
  <<<<"U+051E">>, <<"U+051F">>, <<"U+051E">>>>,
  <<<<"U+051E">>, <<"U+051F">>, <<"U+051E">>>>,
  <<<<"U+0520">>, <<"U+0521">>, <<"U+0520">>>>,
  <<<<"U+0520">>, <<"U+0521">>, <<"U+0520">>>>,
  <<<<"U+0522">>, <<"U+0523">>, <<"U+0522">>>>,
  <<<<"U+0522">>, <<"U+0523">>, <<"U+0522">>>>,
  <<<<"U+0524">>, <<"U+0525">>, <<"U+0524">>>>,
  <<<<"U+0524">>, <<"U+0525">>, <<"U+0524">>>>,
  <<<<"U+0526">>, <<"U+0527">>, <<"U+0526">>>>,
  <<<<"U+0526">>, <<"U+0527">>, <<"U+0526">>>>,
  <<<<"U+0528">>, <<"U+0529">>, <<"U+0528">>>>,
  <<<<"U+0528">>, <<"U+0529">>, <<"U+0528">>>>,
  <<<<"U+052A">>, <<"U+052B">>, <<"U+052A">>>>,
  <<<<"U+052A">>, <<"U+052B">>, <<"U+052A">>>>,
  <<<<"U+052C">>, <<"U+052D">>, <<"U+052C">>>>,
  <<<<"U+052C">>, <<"U+052D">>, <<"U+052C">>>>,
  <<<<"U+052E">>, <<"U+052F">>, <<"U+052E">>>>,
  <<<<"U+052E">>, <<"U+052F">>, <<"U+052E">>>>,
  <<<<"U+0531">>, <<"U+0561">>, <<"U+0531">>>>,
  <<<<"U+0532">>, <<"U+0562">>, <<"U+0532">>>>,
  <<<<"U+0533">>, <<"U+0563">>, <<"U+0533">>>>,
  <<<<"U+0534">>, <<"U+0564">>, <<"U+0534">>>>,
  <<<<"U+0535">>, <<"U+0565">>, <<"U+0535">>>>,
  <<<<"U+0536">>, <<"U+0566">>, <<"U+0536">>>>,
  <<<<"U+0537">>, <<"U+0567">>, <<"U+0537">>>>,
  <<<<"U+0538">>, <<"U+0568">>, <<"U+0538">>>>,
  <<<<"U+0539">>, <<"U+0569">>, <<"U+0539">>>>,
  <<<<"U+053A">>, <<"U+056A">>, <<"U+053A">>>>,
  <<<<"U+053B">>, <<"U+056B">>, <<"U+053B">>>>,
  <<<<"U+053C">>, <<"U+056C">>, <<"U+053C">>>>,
  <<<<"U+053D">>, <<"U+056D">>, <<"U+053D">>>>,
  <<<<"U+053E">>, <<"U+056E">>, <<"U+053E">>>>,
  <<<<"U+053F">>, <<"U+056F">>, <<"U+053F">>>>,
  <<<<"U+0540">>, <<"U+0570">>, <<"U+0540">>>>,
  <<<<"U+0541">>, <<"U+0571">>, <<"U+0541">>>>,
  <<<<"U+0542">>, <<"U+0572">>, <<"U+0542">>>>,
  <<<<"U+0543">>, <<"U+0573">>, <<"U+0543">>>>,
  <<<<"U+0544">>, <<"U+0574">>, <<"U+0544">>>>,
  <<<<"U+0545">>, <<"U+0575">>, <<"U+0545">>>>,
  <<<<"U+0546">>, <<"U+0576">>, <<"U+0546">>>>,
  <<<<"U+0547">>, <<"U+0577">>, <<"U+0547">>>>,
  <<<<"U+0548">>, <<"U+0578">>, <<"U+0548">>>>,
  <<<<"U+0549">>, <<"U+0579">>, <<"U+0549">>>>,
  <<<<"U+054A">>, <<"U+057A">>, <<"U+054A">>>>,
  <<<<"U+054B">>, <<"U+057B">>, <<"U+054B">>>>,
  <<<<"U+054C">>, <<"U+057C">>, <<"U+054C">>>>,
  <<<<"U+054D">>, <<"U+057D">>, <<"U+054D">>>>,
  <<<<"U+054E">>, <<"U+057E">>, <<"U+054E">>>>,
  <<<<"U+054F">>, <<"U+057F">>, <<"U+054F">>>>,
  <<<<"U+0550">>, <<"ր">>, <<"U+0550">>>>,
  <<<<"U+0551">>, <<"ց">>, <<"U+0551">>>>,
  <<<<"U+0552">>, <<"ւ">>, <<"U+0552">>>>,
  <<<<"U+0553">>, <<"փ">>, <<"U+0553">>>>,
  <<<<"U+0554">>, <<"ք">>, <<"U+0554">>>>,
  <<<<"U+0555">>, <<"օ">>, <<"U+0555">>>>,
  <<<<"U+0556">>, <<"ֆ">>, <<"U+0556">>>>,
  <<<<"U+0531">>, <<"U+0561">>, <<"U+0531">>>>,
  <<<<"U+0532">>, <<"U+0562">>, <<"U+0532">>>>,
  <<<<"U+0533">>, <<"U+0563">>, <<"U+0533">>>>,
  <<<<"U+0534">>, <<"U+0564">>, <<"U+0534">>>>,
  <<<<"U+0535">>, <<"U+0565">>, <<"U+0535">>>>,
  <<<<"U+0536">>, <<"U+0566">>, <<"U+0536">>>>,
  <<<<"U+0537">>, <<"U+0567">>, <<"U+0537">>>>,
  <<<<"U+0538">>, <<"U+0568">>, <<"U+0538">>>>,
  <<<<"U+0539">>, <<"U+0569">>, <<"U+0539">>>>,
  <<<<"U+053A">>, <<"U+056A">>, <<"U+053A">>>>,
  <<<<"U+053B">>, <<"U+056B">>, <<"U+053B">>>>,
  <<<<"U+053C">>, <<"U+056C">>, <<"U+053C">>>>,
  <<<<"U+053D">>, <<"U+056D">>, <<"U+053D">>>>,
  <<<<"U+053E">>, <<"U+056E">>, <<"U+053E">>>>,
  <<<<"U+053F">>, <<"U+056F">>, <<"U+053F">>>>,
  <<<<"U+0540">>, <<"U+0570">>, <<"U+0540">>>>,
  <<<<"U+0541">>, <<"U+0571">>, <<"U+0541">>>>,
  <<<<"U+0542">>, <<"U+0572">>, <<"U+0542">>>>,
  <<<<"U+0543">>, <<"U+0573">>, <<"U+0543">>>>,
  <<<<"U+0544">>, <<"U+0574">>, <<"U+0544">>>>,
  <<<<"U+0545">>, <<"U+0575">>, <<"U+0545">>>>,
  <<<<"U+0546">>, <<"U+0576">>, <<"U+0546">>>>,
  <<<<"U+0547">>, <<"U+0577">>, <<"U+0547">>>>,
  <<<<"U+0548">>, <<"U+0578">>, <<"U+0548">>>>,
  <<<<"U+0549">>, <<"U+0579">>, <<"U+0549">>>>,
  <<<<"U+054A">>, <<"U+057A">>, <<"U+054A">>>>,
  <<<<"U+054B">>, <<"U+057B">>, <<"U+054B">>>>,
  <<<<"U+054C">>, <<"U+057C">>, <<"U+054C">>>>,
  <<<<"U+054D">>, <<"U+057D">>, <<"U+054D">>>>,
  <<<<"U+054E">>, <<"U+057E">>, <<"U+054E">>>>,
  <<<<"U+054F">>, <<"U+057F">>, <<"U+054F">>>>,
  <<<<"U+0550">>, <<"ր">>, <<"U+0550">>>>,
  <<<<"U+0551">>, <<"ց">>, <<"U+0551">>>>,
  <<<<"U+0552">>, <<"ւ">>, <<"U+0552">>>>,
  <<<<"U+0553">>, <<"փ">>, <<"U+0553">>>>,
  <<<<"U+0554">>, <<"ք">>, <<"U+0554">>>>,
  <<<<"U+0555">>, <<"օ">>, <<"U+0555">>>>,
  <<<<"U+0556">>, <<"ֆ">>, <<"U+0556">>>>,
  <<<<"U+0535", "U+0552">>, <<"և">>, <<"U+0535", "ւ">>>>,
  <<<<"Ⴀ">>, <<"U+2D00">>, <<"Ⴀ">>>>, <<<<"Ⴁ">>, <<"U+2D01">>, <<"Ⴁ">>>>,
  <<<<"Ⴂ">>, <<"U+2D02">>, <<"Ⴂ">>>>, <<<<"Ⴃ">>, <<"U+2D03">>, <<"Ⴃ">>>>,
  <<<<"Ⴄ">>, <<"U+2D04">>, <<"Ⴄ">>>>, <<<<"Ⴅ">>, <<"U+2D05">>, <<"Ⴅ">>>>,
  <<<<"Ⴆ">>, <<"U+2D06">>, <<"Ⴆ">>>>, <<<<"Ⴇ">>, <<"U+2D07">>, <<"Ⴇ">>>>,
  <<<<"Ⴈ">>, <<"U+2D08">>, <<"Ⴈ">>>>, <<<<"Ⴉ">>, <<"U+2D09">>, <<"Ⴉ">>>>,
  <<<<"Ⴊ">>, <<"U+2D0A">>, <<"Ⴊ">>>>, <<<<"Ⴋ">>, <<"U+2D0B">>, <<"Ⴋ">>>>,
  <<<<"Ⴌ">>, <<"U+2D0C">>, <<"Ⴌ">>>>, <<<<"Ⴍ">>, <<"U+2D0D">>, <<"Ⴍ">>>>,
  <<<<"Ⴎ">>, <<"U+2D0E">>, <<"Ⴎ">>>>, <<<<"Ⴏ">>, <<"U+2D0F">>, <<"Ⴏ">>>>,
  <<<<"Ⴐ">>, <<"U+2D10">>, <<"Ⴐ">>>>, <<<<"Ⴑ">>, <<"U+2D11">>, <<"Ⴑ">>>>,
  <<<<"Ⴒ">>, <<"U+2D12">>, <<"Ⴒ">>>>, <<<<"Ⴓ">>, <<"U+2D13">>, <<"Ⴓ">>>>,
  <<<<"Ⴔ">>, <<"U+2D14">>, <<"Ⴔ">>>>, <<<<"Ⴕ">>, <<"U+2D15">>, <<"Ⴕ">>>>,
  <<<<"Ⴖ">>, <<"U+2D16">>, <<"Ⴖ">>>>, <<<<"Ⴗ">>, <<"U+2D17">>, <<"Ⴗ">>>>,
  <<<<"Ⴘ">>, <<"U+2D18">>, <<"Ⴘ">>>>, <<<<"Ⴙ">>, <<"U+2D19">>, <<"Ⴙ">>>>,
  <<<<"Ⴚ">>, <<"U+2D1A">>, <<"Ⴚ">>>>, <<<<"Ⴛ">>, <<"U+2D1B">>, <<"Ⴛ">>>>,
  <<<<"Ⴜ">>, <<"U+2D1C">>, <<"Ⴜ">>>>, <<<<"Ⴝ">>, <<"U+2D1D">>, <<"Ⴝ">>>>,
  <<<<"Ⴞ">>, <<"U+2D1E">>, <<"Ⴞ">>>>, <<<<"Ⴟ">>, <<"U+2D1F">>, <<"Ⴟ">>>>,
  <<<<"Ⴠ">>, <<"U+2D20">>, <<"Ⴠ">>>>, <<<<"Ⴡ">>, <<"U+2D21">>, <<"Ⴡ">>>>,
  <<<<"Ⴢ">>, <<"U+2D22">>, <<"Ⴢ">>>>, <<<<"Ⴣ">>, <<"U+2D23">>, <<"Ⴣ">>>>,
  <<<<"Ⴤ">>, <<"U+2D24">>, <<"Ⴤ">>>>, <<<<"Ⴥ">>, <<"U+2D25">>, <<"Ⴥ">>>>,
  <<<<"Ⴧ">>, <<"U+2D27">>, <<"Ⴧ">>>>, <<<<"Ⴭ">>, <<"U+2D2D">>, <<"Ⴭ">>>>,
  <<<<"Ა">>, <<"ა">>, <<"ა">>>>, <<<<"Ბ">>, <<"ბ">>, <<"ბ">>>>,
  <<<<"Გ">>, <<"გ">>, <<"გ">>>>, <<<<"Დ">>, <<"დ">>, <<"დ">>>>,
  <<<<"Ე">>, <<"ე">>, <<"ე">>>>, <<<<"Ვ">>, <<"ვ">>, <<"ვ">>>>,
  <<<<"Ზ">>, <<"ზ">>, <<"ზ">>>>, <<<<"Თ">>, <<"თ">>, <<"თ">>>>,
  <<<<"Ი">>, <<"ი">>, <<"ი">>>>, <<<<"Კ">>, <<"კ">>, <<"კ">>>>,
  <<<<"Ლ">>, <<"ლ">>, <<"ლ">>>>, <<<<"Მ">>, <<"მ">>, <<"მ">>>>,
  <<<<"Ნ">>, <<"ნ">>, <<"ნ">>>>, <<<<"Ო">>, <<"ო">>, <<"ო">>>>,
  <<<<"Პ">>, <<"პ">>, <<"პ">>>>, <<<<"Ჟ">>, <<"ჟ">>, <<"ჟ">>>>,
  <<<<"Რ">>, <<"რ">>, <<"რ">>>>, <<<<"Ს">>, <<"ს">>, <<"ს">>>>,
  <<<<"Ტ">>, <<"ტ">>, <<"ტ">>>>, <<<<"Უ">>, <<"უ">>, <<"უ">>>>,
  <<<<"Ფ">>, <<"ფ">>, <<"ფ">>>>, <<<<"Ქ">>, <<"ქ">>, <<"ქ">>>>,
  <<<<"Ღ">>, <<"ღ">>, <<"ღ">>>>, <<<<"Ყ">>, <<"ყ">>, <<"ყ">>>>,
  <<<<"Შ">>, <<"შ">>, <<"შ">>>>, <<<<"Ჩ">>, <<"ჩ">>, <<"ჩ">>>>,
  <<<<"Ც">>, <<"ც">>, <<"ც">>>>, <<<<"Ძ">>, <<"ძ">>, <<"ძ">>>>,
  <<<<"Წ">>, <<"წ">>, <<"წ">>>>, <<<<"Ჭ">>, <<"ჭ">>, <<"ჭ">>>>,
  <<<<"Ხ">>, <<"ხ">>, <<"ხ">>>>, <<<<"Ჯ">>, <<"ჯ">>, <<"ჯ">>>>,
  <<<<"Ჰ">>, <<"ჰ">>, <<"ჰ">>>>, <<<<"Ჱ">>, <<"ჱ">>, <<"ჱ">>>>,
  <<<<"Ჲ">>, <<"ჲ">>, <<"ჲ">>>>, <<<<"Ჳ">>, <<"ჳ">>, <<"ჳ">>>>,
  <<<<"Ჴ">>, <<"ჴ">>, <<"ჴ">>>>, <<<<"Ჵ">>, <<"ჵ">>, <<"ჵ">>>>,
  <<<<"Ჶ">>, <<"ჶ">>, <<"ჶ">>>>, <<<<"Ჷ">>, <<"ჷ">>, <<"ჷ">>>>,
  <<<<"Ჸ">>, <<"ჸ">>, <<"ჸ">>>>, <<<<"Ჹ">>, <<"ჹ">>, <<"ჹ">>>>,
  <<<<"Ჺ">>, <<"ჺ">>, <<"ჺ">>>>, <<<<"Ჽ">>, <<"ჽ">>, <<"ჽ">>>>,
  <<<<"Ჾ">>, <<"ჾ">>, <<"ჾ">>>>, <<<<"Ჿ">>, <<"ჿ">>, <<"ჿ">>>>,
  <<<<"Ꭰ">>, <<"U+AB70">>, <<"Ꭰ">>>>, <<<<"Ꭱ">>, <<"U+AB71">>, <<"Ꭱ">>>>,
  <<<<"Ꭲ">>, <<"U+AB72">>, <<"Ꭲ">>>>, <<<<"Ꭳ">>, <<"U+AB73">>, <<"Ꭳ">>>>,
  <<<<"Ꭴ">>, <<"U+AB74">>, <<"Ꭴ">>>>, <<<<"Ꭵ">>, <<"U+AB75">>, <<"Ꭵ">>>>,
  <<<<"Ꭶ">>, <<"U+AB76">>, <<"Ꭶ">>>>, <<<<"Ꭷ">>, <<"U+AB77">>, <<"Ꭷ">>>>,
  <<<<"Ꭸ">>, <<"U+AB78">>, <<"Ꭸ">>>>, <<<<"Ꭹ">>, <<"U+AB79">>, <<"Ꭹ">>>>,
  <<<<"Ꭺ">>, <<"U+AB7A">>, <<"Ꭺ">>>>, <<<<"Ꭻ">>, <<"U+AB7B">>, <<"Ꭻ">>>>,
  <<<<"Ꭼ">>, <<"U+AB7C">>, <<"Ꭼ">>>>, <<<<"Ꭽ">>, <<"U+AB7D">>, <<"Ꭽ">>>>,
  <<<<"Ꭾ">>, <<"U+AB7E">>, <<"Ꭾ">>>>, <<<<"Ꭿ">>, <<"U+AB7F">>, <<"Ꭿ">>>>,
  <<<<"Ꮀ">>, <<"ꮀ">>, <<"Ꮀ">>>>, <<<<"Ꮁ">>, <<"ꮁ">>, <<"Ꮁ">>>>,
  <<<<"Ꮂ">>, <<"ꮂ">>, <<"Ꮂ">>>>, <<<<"Ꮃ">>, <<"ꮃ">>, <<"Ꮃ">>>>,
  <<<<"Ꮄ">>, <<"ꮄ">>, <<"Ꮄ">>>>, <<<<"Ꮅ">>, <<"ꮅ">>, <<"Ꮅ">>>>,
  <<<<"Ꮆ">>, <<"ꮆ">>, <<"Ꮆ">>>>, <<<<"Ꮇ">>, <<"ꮇ">>, <<"Ꮇ">>>>,
  <<<<"Ꮈ">>, <<"ꮈ">>, <<"Ꮈ">>>>, <<<<"Ꮉ">>, <<"ꮉ">>, <<"Ꮉ">>>>,
  <<<<"Ꮊ">>, <<"ꮊ">>, <<"Ꮊ">>>>, <<<<"Ꮋ">>, <<"ꮋ">>, <<"Ꮋ">>>>,
  <<<<"Ꮌ">>, <<"ꮌ">>, <<"Ꮌ">>>>, <<<<"Ꮍ">>, <<"ꮍ">>, <<"Ꮍ">>>>,
  <<<<"Ꮎ">>, <<"ꮎ">>, <<"Ꮎ">>>>, <<<<"Ꮏ">>, <<"ꮏ">>, <<"Ꮏ">>>>,
  <<<<"Ꮐ">>, <<"ꮐ">>, <<"Ꮐ">>>>, <<<<"Ꮑ">>, <<"ꮑ">>, <<"Ꮑ">>>>,
  <<<<"Ꮒ">>, <<"ꮒ">>, <<"Ꮒ">>>>, <<<<"Ꮓ">>, <<"ꮓ">>, <<"Ꮓ">>>>,
  <<<<"Ꮔ">>, <<"ꮔ">>, <<"Ꮔ">>>>, <<<<"Ꮕ">>, <<"ꮕ">>, <<"Ꮕ">>>>,
  <<<<"Ꮖ">>, <<"ꮖ">>, <<"Ꮖ">>>>, <<<<"Ꮗ">>, <<"ꮗ">>, <<"Ꮗ">>>>,
  <<<<"Ꮘ">>, <<"ꮘ">>, <<"Ꮘ">>>>, <<<<"Ꮙ">>, <<"ꮙ">>, <<"Ꮙ">>>>,
  <<<<"Ꮚ">>, <<"ꮚ">>, <<"Ꮚ">>>>, <<<<"Ꮛ">>, <<"ꮛ">>, <<"Ꮛ">>>>,
  <<<<"Ꮜ">>, <<"ꮜ">>, <<"Ꮜ">>>>, <<<<"Ꮝ">>, <<"ꮝ">>, <<"Ꮝ">>>>,
  <<<<"Ꮞ">>, <<"ꮞ">>, <<"Ꮞ">>>>, <<<<"Ꮟ">>, <<"ꮟ">>, <<"Ꮟ">>>>,
  <<<<"Ꮠ">>, <<"ꮠ">>, <<"Ꮠ">>>>, <<<<"Ꮡ">>, <<"ꮡ">>, <<"Ꮡ">>>>,
  <<<<"Ꮢ">>, <<"ꮢ">>, <<"Ꮢ">>>>, <<<<"Ꮣ">>, <<"ꮣ">>, <<"Ꮣ">>>>,
  <<<<"Ꮤ">>, <<"ꮤ">>, <<"Ꮤ">>>>, <<<<"Ꮥ">>, <<"ꮥ">>, <<"Ꮥ">>>>,
  <<<<"Ꮦ">>, <<"ꮦ">>, <<"Ꮦ">>>>, <<<<"Ꮧ">>, <<"ꮧ">>, <<"Ꮧ">>>>,
  <<<<"Ꮨ">>, <<"ꮨ">>, <<"Ꮨ">>>>, <<<<"Ꮩ">>, <<"ꮩ">>, <<"Ꮩ">>>>,
  <<<<"Ꮪ">>, <<"ꮪ">>, <<"Ꮪ">>>>, <<<<"Ꮫ">>, <<"ꮫ">>, <<"Ꮫ">>>>,
  <<<<"Ꮬ">>, <<"ꮬ">>, <<"Ꮬ">>>>, <<<<"Ꮭ">>, <<"ꮭ">>, <<"Ꮭ">>>>,
  <<<<"Ꮮ">>, <<"ꮮ">>, <<"Ꮮ">>>>, <<<<"Ꮯ">>, <<"ꮯ">>, <<"Ꮯ">>>>,
  <<<<"Ꮰ">>, <<"ꮰ">>, <<"Ꮰ">>>>, <<<<"Ꮱ">>, <<"ꮱ">>, <<"Ꮱ">>>>,
  <<<<"Ꮲ">>, <<"ꮲ">>, <<"Ꮲ">>>>, <<<<"Ꮳ">>, <<"ꮳ">>, <<"Ꮳ">>>>,
  <<<<"Ꮴ">>, <<"ꮴ">>, <<"Ꮴ">>>>, <<<<"Ꮵ">>, <<"ꮵ">>, <<"Ꮵ">>>>,
  <<<<"Ꮶ">>, <<"ꮶ">>, <<"Ꮶ">>>>, <<<<"Ꮷ">>, <<"ꮷ">>, <<"Ꮷ">>>>,
  <<<<"Ꮸ">>, <<"ꮸ">>, <<"Ꮸ">>>>, <<<<"Ꮹ">>, <<"ꮹ">>, <<"Ꮹ">>>>,
  <<<<"Ꮺ">>, <<"ꮺ">>, <<"Ꮺ">>>>, <<<<"Ꮻ">>, <<"ꮻ">>, <<"Ꮻ">>>>,
  <<<<"Ꮼ">>, <<"ꮼ">>, <<"Ꮼ">>>>, <<<<"Ꮽ">>, <<"ꮽ">>, <<"Ꮽ">>>>,
  <<<<"Ꮾ">>, <<"ꮾ">>, <<"Ꮾ">>>>, <<<<"Ꮿ">>, <<"ꮿ">>, <<"Ꮿ">>>>,
  <<<<"Ᏸ">>, <<"ᏸ">>, <<"Ᏸ">>>>, <<<<"Ᏹ">>, <<"ᏹ">>, <<"Ᏹ">>>>,
  <<<<"Ᏺ">>, <<"ᏺ">>, <<"Ᏺ">>>>, <<<<"Ᏻ">>, <<"ᏻ">>, <<"Ᏻ">>>>,
  <<<<"Ᏼ">>, <<"ᏼ">>, <<"Ᏼ">>>>, <<<<"Ᏽ">>, <<"ᏽ">>, <<"Ᏽ">>>>,
  <<<<"Ᏸ">>, <<"ᏸ">>, <<"Ᏸ">>>>, <<<<"Ᏹ">>, <<"ᏹ">>, <<"Ᏹ">>>>,
  <<<<"Ᏺ">>, <<"ᏺ">>, <<"Ᏺ">>>>, <<<<"Ᏻ">>, <<"ᏻ">>, <<"Ᏻ">>>>,
  <<<<"Ᏼ">>, <<"ᏼ">>, <<"Ᏼ">>>>, <<<<"Ᏽ">>, <<"ᏽ">>, <<"Ᏽ">>>>,
  <<<<"U+0412">>, <<"ᲀ">>, <<"U+0412">>>>,
  <<<<"U+0414">>, <<"ᲁ">>, <<"U+0414">>>>,
  <<<<"U+041E">>, <<"ᲂ">>, <<"U+041E">>>>,
  <<<<"U+0421">>, <<"ᲃ">>, <<"U+0421">>>>,
  <<<<"U+0422">>, <<"ᲄ">>, <<"U+0422">>>>,
  <<<<"U+0422">>, <<"ᲅ">>, <<"U+0422">>>>,
  <<<<"U+042A">>, <<"ᲆ">>, <<"U+042A">>>>,
  <<<<"U+0462">>, <<"ᲇ">>, <<"U+0462">>>>,
  <<<<"U+A64A">>, <<"ᲈ">>, <<"U+A64A">>>>, <<<<"Ა">>, <<"ა">>, <<"Ა">>>>,
  <<<<"Ბ">>, <<"ბ">>, <<"Ბ">>>>, <<<<"Გ">>, <<"გ">>, <<"Გ">>>>,
  <<<<"Დ">>, <<"დ">>, <<"Დ">>>>, <<<<"Ე">>, <<"ე">>, <<"Ე">>>>,
  <<<<"Ვ">>, <<"ვ">>, <<"Ვ">>>>, <<<<"Ზ">>, <<"ზ">>, <<"Ზ">>>>,
  <<<<"Თ">>, <<"თ">>, <<"Თ">>>>, <<<<"Ი">>, <<"ი">>, <<"Ი">>>>,
  <<<<"Კ">>, <<"კ">>, <<"Კ">>>>, <<<<"Ლ">>, <<"ლ">>, <<"Ლ">>>>,
  <<<<"Მ">>, <<"მ">>, <<"Მ">>>>, <<<<"Ნ">>, <<"ნ">>, <<"Ნ">>>>,
  <<<<"Ო">>, <<"ო">>, <<"Ო">>>>, <<<<"Პ">>, <<"პ">>, <<"Პ">>>>,
  <<<<"Ჟ">>, <<"ჟ">>, <<"Ჟ">>>>, <<<<"Რ">>, <<"რ">>, <<"Რ">>>>,
  <<<<"Ს">>, <<"ს">>, <<"Ს">>>>, <<<<"Ტ">>, <<"ტ">>, <<"Ტ">>>>,
  <<<<"Უ">>, <<"უ">>, <<"Უ">>>>, <<<<"Ფ">>, <<"ფ">>, <<"Ფ">>>>,
  <<<<"Ქ">>, <<"ქ">>, <<"Ქ">>>>, <<<<"Ღ">>, <<"ღ">>, <<"Ღ">>>>,
  <<<<"Ყ">>, <<"ყ">>, <<"Ყ">>>>, <<<<"Შ">>, <<"შ">>, <<"Შ">>>>,
  <<<<"Ჩ">>, <<"ჩ">>, <<"Ჩ">>>>, <<<<"Ც">>, <<"ც">>, <<"Ც">>>>,
  <<<<"Ძ">>, <<"ძ">>, <<"Ძ">>>>, <<<<"Წ">>, <<"წ">>, <<"Წ">>>>,
  <<<<"Ჭ">>, <<"ჭ">>, <<"Ჭ">>>>, <<<<"Ხ">>, <<"ხ">>, <<"Ხ">>>>,
  <<<<"Ჯ">>, <<"ჯ">>, <<"Ჯ">>>>, <<<<"Ჰ">>, <<"ჰ">>, <<"Ჰ">>>>,
  <<<<"Ჱ">>, <<"ჱ">>, <<"Ჱ">>>>, <<<<"Ჲ">>, <<"ჲ">>, <<"Ჲ">>>>,
  <<<<"Ჳ">>, <<"ჳ">>, <<"Ჳ">>>>, <<<<"Ჴ">>, <<"ჴ">>, <<"Ჴ">>>>,
  <<<<"Ჵ">>, <<"ჵ">>, <<"Ჵ">>>>, <<<<"Ჶ">>, <<"ჶ">>, <<"Ჶ">>>>,
  <<<<"Ჷ">>, <<"ჷ">>, <<"Ჷ">>>>, <<<<"Ჸ">>, <<"ჸ">>, <<"Ჸ">>>>,
  <<<<"Ჹ">>, <<"ჹ">>, <<"Ჹ">>>>, <<<<"Ჺ">>, <<"ჺ">>, <<"Ჺ">>>>,
  <<<<"Ჽ">>, <<"ჽ">>, <<"Ჽ">>>>, <<<<"Ჾ">>, <<"ჾ">>, <<"Ჾ">>>>,
  <<<<"Ჿ">>, <<"ჿ">>, <<"Ჿ">>>>,
  <<<<"U+A77D">>, <<"U+1D79">>, <<"U+A77D">>>>,
  <<<<"U+2C63">>, <<"U+1D7D">>, <<"U+2C63">>>>,
  <<<<"Ᶎ">>, <<"ᶎ">>, <<"Ᶎ">>>>,
  <<<<"U+1E00">>, <<"U+1E01">>, <<"U+1E00">>>>,
  <<<<"U+1E00">>, <<"U+1E01">>, <<"U+1E00">>>>,
  <<<<"U+1E02">>, <<"U+1E03">>, <<"U+1E02">>>>,
  <<<<"U+1E02">>, <<"U+1E03">>, <<"U+1E02">>>>,
  <<<<"U+1E04">>, <<"U+1E05">>, <<"U+1E04">>>>,
  <<<<"U+1E04">>, <<"U+1E05">>, <<"U+1E04">>>>,
  <<<<"U+1E06">>, <<"U+1E07">>, <<"U+1E06">>>>,
  <<<<"U+1E06">>, <<"U+1E07">>, <<"U+1E06">>>>,
  <<<<"U+1E08">>, <<"U+1E09">>, <<"U+1E08">>>>,
  <<<<"U+1E08">>, <<"U+1E09">>, <<"U+1E08">>>>,
  <<<<"U+1E0A">>, <<"U+1E0B">>, <<"U+1E0A">>>>,
  <<<<"U+1E0A">>, <<"U+1E0B">>, <<"U+1E0A">>>>,
  <<<<"U+1E0C">>, <<"U+1E0D">>, <<"U+1E0C">>>>,
  <<<<"U+1E0C">>, <<"U+1E0D">>, <<"U+1E0C">>>>,
  <<<<"U+1E0E">>, <<"U+1E0F">>, <<"U+1E0E">>>>,
  <<<<"U+1E0E">>, <<"U+1E0F">>, <<"U+1E0E">>>>,
  <<<<"U+1E10">>, <<"U+1E11">>, <<"U+1E10">>>>,
  <<<<"U+1E10">>, <<"U+1E11">>, <<"U+1E10">>>>,
  <<<<"U+1E12">>, <<"U+1E13">>, <<"U+1E12">>>>,
  <<<<"U+1E12">>, <<"U+1E13">>, <<"U+1E12">>>>,
  <<<<"U+1E14">>, <<"U+1E15">>, <<"U+1E14">>>>,
  <<<<"U+1E14">>, <<"U+1E15">>, <<"U+1E14">>>>,
  <<<<"U+1E16">>, <<"U+1E17">>, <<"U+1E16">>>>,
  <<<<"U+1E16">>, <<"U+1E17">>, <<"U+1E16">>>>,
  <<<<"U+1E18">>, <<"U+1E19">>, <<"U+1E18">>>>,
  <<<<"U+1E18">>, <<"U+1E19">>, <<"U+1E18">>>>,
  <<<<"U+1E1A">>, <<"U+1E1B">>, <<"U+1E1A">>>>,
  <<<<"U+1E1A">>, <<"U+1E1B">>, <<"U+1E1A">>>>,
  <<<<"U+1E1C">>, <<"U+1E1D">>, <<"U+1E1C">>>>,
  <<<<"U+1E1C">>, <<"U+1E1D">>, <<"U+1E1C">>>>,
  <<<<"U+1E1E">>, <<"U+1E1F">>, <<"U+1E1E">>>>,
  <<<<"U+1E1E">>, <<"U+1E1F">>, <<"U+1E1E">>>>,
  <<<<"U+1E20">>, <<"U+1E21">>, <<"U+1E20">>>>,
  <<<<"U+1E20">>, <<"U+1E21">>, <<"U+1E20">>>>,
  <<<<"U+1E22">>, <<"U+1E23">>, <<"U+1E22">>>>,
  <<<<"U+1E22">>, <<"U+1E23">>, <<"U+1E22">>>>,
  <<<<"U+1E24">>, <<"U+1E25">>, <<"U+1E24">>>>,
  <<<<"U+1E24">>, <<"U+1E25">>, <<"U+1E24">>>>,
  <<<<"U+1E26">>, <<"U+1E27">>, <<"U+1E26">>>>,
  <<<<"U+1E26">>, <<"U+1E27">>, <<"U+1E26">>>>,
  <<<<"U+1E28">>, <<"U+1E29">>, <<"U+1E28">>>>,
  <<<<"U+1E28">>, <<"U+1E29">>, <<"U+1E28">>>>,
  <<<<"U+1E2A">>, <<"U+1E2B">>, <<"U+1E2A">>>>,
  <<<<"U+1E2A">>, <<"U+1E2B">>, <<"U+1E2A">>>>,
  <<<<"U+1E2C">>, <<"U+1E2D">>, <<"U+1E2C">>>>,
  <<<<"U+1E2C">>, <<"U+1E2D">>, <<"U+1E2C">>>>,
  <<<<"U+1E2E">>, <<"U+1E2F">>, <<"U+1E2E">>>>,
  <<<<"U+1E2E">>, <<"U+1E2F">>, <<"U+1E2E">>>>,
  <<<<"U+1E30">>, <<"U+1E31">>, <<"U+1E30">>>>,
  <<<<"U+1E30">>, <<"U+1E31">>, <<"U+1E30">>>>,
  <<<<"U+1E32">>, <<"U+1E33">>, <<"U+1E32">>>>,
  <<<<"U+1E32">>, <<"U+1E33">>, <<"U+1E32">>>>,
  <<<<"U+1E34">>, <<"U+1E35">>, <<"U+1E34">>>>,
  <<<<"U+1E34">>, <<"U+1E35">>, <<"U+1E34">>>>,
  <<<<"U+1E36">>, <<"U+1E37">>, <<"U+1E36">>>>,
  <<<<"U+1E36">>, <<"U+1E37">>, <<"U+1E36">>>>,
  <<<<"U+1E38">>, <<"U+1E39">>, <<"U+1E38">>>>,
  <<<<"U+1E38">>, <<"U+1E39">>, <<"U+1E38">>>>,
  <<<<"U+1E3A">>, <<"U+1E3B">>, <<"U+1E3A">>>>,
  <<<<"U+1E3A">>, <<"U+1E3B">>, <<"U+1E3A">>>>,
  <<<<"U+1E3C">>, <<"U+1E3D">>, <<"U+1E3C">>>>,
  <<<<"U+1E3C">>, <<"U+1E3D">>, <<"U+1E3C">>>>,
  <<<<"U+1E3E">>, <<"U+1E3F">>, <<"U+1E3E">>>>,
  <<<<"U+1E3E">>, <<"U+1E3F">>, <<"U+1E3E">>>>,
  <<<<"U+1E40">>, <<"U+1E41">>, <<"U+1E40">>>>,
  <<<<"U+1E40">>, <<"U+1E41">>, <<"U+1E40">>>>,
  <<<<"U+1E42">>, <<"U+1E43">>, <<"U+1E42">>>>,
  <<<<"U+1E42">>, <<"U+1E43">>, <<"U+1E42">>>>,
  <<<<"U+1E44">>, <<"U+1E45">>, <<"U+1E44">>>>,
  <<<<"U+1E44">>, <<"U+1E45">>, <<"U+1E44">>>>,
  <<<<"U+1E46">>, <<"U+1E47">>, <<"U+1E46">>>>,
  <<<<"U+1E46">>, <<"U+1E47">>, <<"U+1E46">>>>,
  <<<<"U+1E48">>, <<"U+1E49">>, <<"U+1E48">>>>,
  <<<<"U+1E48">>, <<"U+1E49">>, <<"U+1E48">>>>,
  <<<<"U+1E4A">>, <<"U+1E4B">>, <<"U+1E4A">>>>,
  <<<<"U+1E4A">>, <<"U+1E4B">>, <<"U+1E4A">>>>,
  <<<<"U+1E4C">>, <<"U+1E4D">>, <<"U+1E4C">>>>,
  <<<<"U+1E4C">>, <<"U+1E4D">>, <<"U+1E4C">>>>,
  <<<<"U+1E4E">>, <<"U+1E4F">>, <<"U+1E4E">>>>,
  <<<<"U+1E4E">>, <<"U+1E4F">>, <<"U+1E4E">>>>,
  <<<<"U+1E50">>, <<"U+1E51">>, <<"U+1E50">>>>,
  <<<<"U+1E50">>, <<"U+1E51">>, <<"U+1E50">>>>,
  <<<<"U+1E52">>, <<"U+1E53">>, <<"U+1E52">>>>,
  <<<<"U+1E52">>, <<"U+1E53">>, <<"U+1E52">>>>,
  <<<<"U+1E54">>, <<"U+1E55">>, <<"U+1E54">>>>,
  <<<<"U+1E54">>, <<"U+1E55">>, <<"U+1E54">>>>,
  <<<<"U+1E56">>, <<"U+1E57">>, <<"U+1E56">>>>,
  <<<<"U+1E56">>, <<"U+1E57">>, <<"U+1E56">>>>,
  <<<<"U+1E58">>, <<"U+1E59">>, <<"U+1E58">>>>,
  <<<<"U+1E58">>, <<"U+1E59">>, <<"U+1E58">>>>,
  <<<<"U+1E5A">>, <<"U+1E5B">>, <<"U+1E5A">>>>,
  <<<<"U+1E5A">>, <<"U+1E5B">>, <<"U+1E5A">>>>,
  <<<<"U+1E5C">>, <<"U+1E5D">>, <<"U+1E5C">>>>,
  <<<<"U+1E5C">>, <<"U+1E5D">>, <<"U+1E5C">>>>,
  <<<<"U+1E5E">>, <<"U+1E5F">>, <<"U+1E5E">>>>,
  <<<<"U+1E5E">>, <<"U+1E5F">>, <<"U+1E5E">>>>,
  <<<<"U+1E60">>, <<"U+1E61">>, <<"U+1E60">>>>,
  <<<<"U+1E60">>, <<"U+1E61">>, <<"U+1E60">>>>,
  <<<<"U+1E62">>, <<"U+1E63">>, <<"U+1E62">>>>,
  <<<<"U+1E62">>, <<"U+1E63">>, <<"U+1E62">>>>,
  <<<<"U+1E64">>, <<"U+1E65">>, <<"U+1E64">>>>,
  <<<<"U+1E64">>, <<"U+1E65">>, <<"U+1E64">>>>,
  <<<<"U+1E66">>, <<"U+1E67">>, <<"U+1E66">>>>,
  <<<<"U+1E66">>, <<"U+1E67">>, <<"U+1E66">>>>,
  <<<<"U+1E68">>, <<"U+1E69">>, <<"U+1E68">>>>,
  <<<<"U+1E68">>, <<"U+1E69">>, <<"U+1E68">>>>,
  <<<<"U+1E6A">>, <<"U+1E6B">>, <<"U+1E6A">>>>,
  <<<<"U+1E6A">>, <<"U+1E6B">>, <<"U+1E6A">>>>,
  <<<<"U+1E6C">>, <<"U+1E6D">>, <<"U+1E6C">>>>,
  <<<<"U+1E6C">>, <<"U+1E6D">>, <<"U+1E6C">>>>,
  <<<<"U+1E6E">>, <<"U+1E6F">>, <<"U+1E6E">>>>,
  <<<<"U+1E6E">>, <<"U+1E6F">>, <<"U+1E6E">>>>,
  <<<<"U+1E70">>, <<"U+1E71">>, <<"U+1E70">>>>,
  <<<<"U+1E70">>, <<"U+1E71">>, <<"U+1E70">>>>,
  <<<<"U+1E72">>, <<"U+1E73">>, <<"U+1E72">>>>,
  <<<<"U+1E72">>, <<"U+1E73">>, <<"U+1E72">>>>,
  <<<<"U+1E74">>, <<"U+1E75">>, <<"U+1E74">>>>,
  <<<<"U+1E74">>, <<"U+1E75">>, <<"U+1E74">>>>,
  <<<<"U+1E76">>, <<"U+1E77">>, <<"U+1E76">>>>,
  <<<<"U+1E76">>, <<"U+1E77">>, <<"U+1E76">>>>,
  <<<<"U+1E78">>, <<"U+1E79">>, <<"U+1E78">>>>,
  <<<<"U+1E78">>, <<"U+1E79">>, <<"U+1E78">>>>,
  <<<<"U+1E7A">>, <<"U+1E7B">>, <<"U+1E7A">>>>,
  <<<<"U+1E7A">>, <<"U+1E7B">>, <<"U+1E7A">>>>,
  <<<<"U+1E7C">>, <<"U+1E7D">>, <<"U+1E7C">>>>,
  <<<<"U+1E7C">>, <<"U+1E7D">>, <<"U+1E7C">>>>,
  <<<<"U+1E7E">>, <<"U+1E7F">>, <<"U+1E7E">>>>,
  <<<<"U+1E7E">>, <<"U+1E7F">>, <<"U+1E7E">>>>,
  <<<<"Ẁ">>, <<"ẁ">>, <<"Ẁ">>>>, <<<<"Ẁ">>, <<"ẁ">>, <<"Ẁ">>>>,
  <<<<"Ẃ">>, <<"ẃ">>, <<"Ẃ">>>>, <<<<"Ẃ">>, <<"ẃ">>, <<"Ẃ">>>>,
  <<<<"Ẅ">>, <<"ẅ">>, <<"Ẅ">>>>, <<<<"Ẅ">>, <<"ẅ">>, <<"Ẅ">>>>,
  <<<<"Ẇ">>, <<"ẇ">>, <<"Ẇ">>>>, <<<<"Ẇ">>, <<"ẇ">>, <<"Ẇ">>>>,
  <<<<"Ẉ">>, <<"ẉ">>, <<"Ẉ">>>>, <<<<"Ẉ">>, <<"ẉ">>, <<"Ẉ">>>>,
  <<<<"Ẋ">>, <<"ẋ">>, <<"Ẋ">>>>, <<<<"Ẋ">>, <<"ẋ">>, <<"Ẋ">>>>,
  <<<<"Ẍ">>, <<"ẍ">>, <<"Ẍ">>>>, <<<<"Ẍ">>, <<"ẍ">>, <<"Ẍ">>>>,
  <<<<"Ẏ">>, <<"ẏ">>, <<"Ẏ">>>>, <<<<"Ẏ">>, <<"ẏ">>, <<"Ẏ">>>>,
  <<<<"Ẑ">>, <<"ẑ">>, <<"Ẑ">>>>, <<<<"Ẑ">>, <<"ẑ">>, <<"Ẑ">>>>,
  <<<<"Ẓ">>, <<"ẓ">>, <<"Ẓ">>>>, <<<<"Ẓ">>, <<"ẓ">>, <<"Ẓ">>>>,
  <<<<"Ẕ">>, <<"ẕ">>, <<"Ẕ">>>>, <<<<"Ẕ">>, <<"ẕ">>, <<"Ẕ">>>>,
  <<<<"H", "U+0331">>, <<"ẖ">>, <<"H", "U+0331">>>>,
  <<<<"T", "U+0308">>, <<"ẗ">>, <<"T", "U+0308">>>>,
  <<<<"W", "U+030A">>, <<"ẘ">>, <<"W", "U+030A">>>>,
  <<<<"Y", "U+030A">>, <<"ẙ">>, <<"Y", "U+030A">>>>,
  <<<<"A", "ʾ">>, <<"ẚ">>, <<"A", "ʾ">>>>,
  <<<<"U+1E60">>, <<"ẛ">>, <<"U+1E60">>>>, <<<<"ẞ">>, <<"ß">>, <<"ẞ">>>>,
  <<<<"Ạ">>, <<"ạ">>, <<"Ạ">>>>, <<<<"Ạ">>, <<"ạ">>, <<"Ạ">>>>,
  <<<<"Ả">>, <<"ả">>, <<"Ả">>>>, <<<<"Ả">>, <<"ả">>, <<"Ả">>>>,
  <<<<"Ấ">>, <<"ấ">>, <<"Ấ">>>>, <<<<"Ấ">>, <<"ấ">>, <<"Ấ">>>>,
  <<<<"Ầ">>, <<"ầ">>, <<"Ầ">>>>, <<<<"Ầ">>, <<"ầ">>, <<"Ầ">>>>,
  <<<<"Ẩ">>, <<"ẩ">>, <<"Ẩ">>>>, <<<<"Ẩ">>, <<"ẩ">>, <<"Ẩ">>>>,
  <<<<"Ẫ">>, <<"ẫ">>, <<"Ẫ">>>>, <<<<"Ẫ">>, <<"ẫ">>, <<"Ẫ">>>>,
  <<<<"Ậ">>, <<"ậ">>, <<"Ậ">>>>, <<<<"Ậ">>, <<"ậ">>, <<"Ậ">>>>,
  <<<<"Ắ">>, <<"ắ">>, <<"Ắ">>>>, <<<<"Ắ">>, <<"ắ">>, <<"Ắ">>>>,
  <<<<"Ằ">>, <<"ằ">>, <<"Ằ">>>>, <<<<"Ằ">>, <<"ằ">>, <<"Ằ">>>>,
  <<<<"Ẳ">>, <<"ẳ">>, <<"Ẳ">>>>, <<<<"Ẳ">>, <<"ẳ">>, <<"Ẳ">>>>,
  <<<<"Ẵ">>, <<"ẵ">>, <<"Ẵ">>>>, <<<<"Ẵ">>, <<"ẵ">>, <<"Ẵ">>>>,
  <<<<"Ặ">>, <<"ặ">>, <<"Ặ">>>>, <<<<"Ặ">>, <<"ặ">>, <<"Ặ">>>>,
  <<<<"Ẹ">>, <<"ẹ">>, <<"Ẹ">>>>, <<<<"Ẹ">>, <<"ẹ">>, <<"Ẹ">>>>,
  <<<<"Ẻ">>, <<"ẻ">>, <<"Ẻ">>>>, <<<<"Ẻ">>, <<"ẻ">>, <<"Ẻ">>>>,
  <<<<"Ẽ">>, <<"ẽ">>, <<"Ẽ">>>>, <<<<"Ẽ">>, <<"ẽ">>, <<"Ẽ">>>>,
  <<<<"Ế">>, <<"ế">>, <<"Ế">>>>, <<<<"Ế">>, <<"ế">>, <<"Ế">>>>,
  <<<<"Ề">>, <<"ề">>, <<"Ề">>>>, <<<<"Ề">>, <<"ề">>, <<"Ề">>>>,
  <<<<"Ể">>, <<"ể">>, <<"Ể">>>>, <<<<"Ể">>, <<"ể">>, <<"Ể">>>>,
  <<<<"Ễ">>, <<"ễ">>, <<"Ễ">>>>, <<<<"Ễ">>, <<"ễ">>, <<"Ễ">>>>,
  <<<<"Ệ">>, <<"ệ">>, <<"Ệ">>>>, <<<<"Ệ">>, <<"ệ">>, <<"Ệ">>>>,
  <<<<"Ỉ">>, <<"ỉ">>, <<"Ỉ">>>>, <<<<"Ỉ">>, <<"ỉ">>, <<"Ỉ">>>>,
  <<<<"Ị">>, <<"ị">>, <<"Ị">>>>, <<<<"Ị">>, <<"ị">>, <<"Ị">>>>,
  <<<<"Ọ">>, <<"ọ">>, <<"Ọ">>>>, <<<<"Ọ">>, <<"ọ">>, <<"Ọ">>>>,
  <<<<"Ỏ">>, <<"ỏ">>, <<"Ỏ">>>>, <<<<"Ỏ">>, <<"ỏ">>, <<"Ỏ">>>>,
  <<<<"Ố">>, <<"ố">>, <<"Ố">>>>, <<<<"Ố">>, <<"ố">>, <<"Ố">>>>,
  <<<<"Ồ">>, <<"ồ">>, <<"Ồ">>>>, <<<<"Ồ">>, <<"ồ">>, <<"Ồ">>>>,
  <<<<"Ổ">>, <<"ổ">>, <<"Ổ">>>>, <<<<"Ổ">>, <<"ổ">>, <<"Ổ">>>>,
  <<<<"Ỗ">>, <<"ỗ">>, <<"Ỗ">>>>, <<<<"Ỗ">>, <<"ỗ">>, <<"Ỗ">>>>,
  <<<<"Ộ">>, <<"ộ">>, <<"Ộ">>>>, <<<<"Ộ">>, <<"ộ">>, <<"Ộ">>>>,
  <<<<"Ớ">>, <<"ớ">>, <<"Ớ">>>>, <<<<"Ớ">>, <<"ớ">>, <<"Ớ">>>>,
  <<<<"Ờ">>, <<"ờ">>, <<"Ờ">>>>, <<<<"Ờ">>, <<"ờ">>, <<"Ờ">>>>,
  <<<<"Ở">>, <<"ở">>, <<"Ở">>>>, <<<<"Ở">>, <<"ở">>, <<"Ở">>>>,
  <<<<"Ỡ">>, <<"ỡ">>, <<"Ỡ">>>>, <<<<"Ỡ">>, <<"ỡ">>, <<"Ỡ">>>>,
  <<<<"Ợ">>, <<"ợ">>, <<"Ợ">>>>, <<<<"Ợ">>, <<"ợ">>, <<"Ợ">>>>,
  <<<<"Ụ">>, <<"ụ">>, <<"Ụ">>>>, <<<<"Ụ">>, <<"ụ">>, <<"Ụ">>>>,
  <<<<"Ủ">>, <<"ủ">>, <<"Ủ">>>>, <<<<"Ủ">>, <<"ủ">>, <<"Ủ">>>>,
  <<<<"Ứ">>, <<"ứ">>, <<"Ứ">>>>, <<<<"Ứ">>, <<"ứ">>, <<"Ứ">>>>,
  <<<<"Ừ">>, <<"ừ">>, <<"Ừ">>>>, <<<<"Ừ">>, <<"ừ">>, <<"Ừ">>>>,
  <<<<"Ử">>, <<"ử">>, <<"Ử">>>>, <<<<"Ử">>, <<"ử">>, <<"Ử">>>>,
  <<<<"Ữ">>, <<"ữ">>, <<"Ữ">>>>, <<<<"Ữ">>, <<"ữ">>, <<"Ữ">>>>,
  <<<<"Ự">>, <<"ự">>, <<"Ự">>>>, <<<<"Ự">>, <<"ự">>, <<"Ự">>>>,
  <<<<"Ỳ">>, <<"ỳ">>, <<"Ỳ">>>>, <<<<"Ỳ">>, <<"ỳ">>, <<"Ỳ">>>>,
  <<<<"Ỵ">>, <<"ỵ">>, <<"Ỵ">>>>, <<<<"Ỵ">>, <<"ỵ">>, <<"Ỵ">>>>,
  <<<<"Ỷ">>, <<"ỷ">>, <<"Ỷ">>>>, <<<<"Ỷ">>, <<"ỷ">>, <<"Ỷ">>>>,
  <<<<"Ỹ">>, <<"ỹ">>, <<"Ỹ">>>>, <<<<"Ỹ">>, <<"ỹ">>, <<"Ỹ">>>>,
  <<<<"Ỻ">>, <<"ỻ">>, <<"Ỻ">>>>, <<<<"Ỻ">>, <<"ỻ">>, <<"Ỻ">>>>,
  <<<<"Ỽ">>, <<"ỽ">>, <<"Ỽ">>>>, <<<<"Ỽ">>, <<"ỽ">>, <<"Ỽ">>>>,
  <<<<"Ỿ">>, <<"ỿ">>, <<"Ỿ">>>>, <<<<"Ỿ">>, <<"ỿ">>, <<"Ỿ">>>>,
  <<<<"U+1F08">>, <<"U+1F00">>, <<"U+1F08">>>>,
  <<<<"U+1F09">>, <<"U+1F01">>, <<"U+1F09">>>>,
  <<<<"U+1F0A">>, <<"U+1F02">>, <<"U+1F0A">>>>,
  <<<<"U+1F0B">>, <<"U+1F03">>, <<"U+1F0B">>>>,
  <<<<"U+1F0C">>, <<"U+1F04">>, <<"U+1F0C">>>>,
  <<<<"U+1F0D">>, <<"U+1F05">>, <<"U+1F0D">>>>,
  <<<<"U+1F0E">>, <<"U+1F06">>, <<"U+1F0E">>>>,
  <<<<"U+1F0F">>, <<"U+1F07">>, <<"U+1F0F">>>>,
  <<<<"U+1F08">>, <<"U+1F00">>, <<"U+1F08">>>>,
  <<<<"U+1F09">>, <<"U+1F01">>, <<"U+1F09">>>>,
  <<<<"U+1F0A">>, <<"U+1F02">>, <<"U+1F0A">>>>,
  <<<<"U+1F0B">>, <<"U+1F03">>, <<"U+1F0B">>>>,
  <<<<"U+1F0C">>, <<"U+1F04">>, <<"U+1F0C">>>>,
  <<<<"U+1F0D">>, <<"U+1F05">>, <<"U+1F0D">>>>,
  <<<<"U+1F0E">>, <<"U+1F06">>, <<"U+1F0E">>>>,
  <<<<"U+1F0F">>, <<"U+1F07">>, <<"U+1F0F">>>>,
  <<<<"U+1F18">>, <<"U+1F10">>, <<"U+1F18">>>>,
  <<<<"U+1F19">>, <<"U+1F11">>, <<"U+1F19">>>>,
  <<<<"U+1F1A">>, <<"U+1F12">>, <<"U+1F1A">>>>,
  <<<<"U+1F1B">>, <<"U+1F13">>, <<"U+1F1B">>>>,
  <<<<"U+1F1C">>, <<"U+1F14">>, <<"U+1F1C">>>>,
  <<<<"U+1F1D">>, <<"U+1F15">>, <<"U+1F1D">>>>,
  <<<<"U+1F18">>, <<"U+1F10">>, <<"U+1F18">>>>,
  <<<<"U+1F19">>, <<"U+1F11">>, <<"U+1F19">>>>,
  <<<<"U+1F1A">>, <<"U+1F12">>, <<"U+1F1A">>>>,
  <<<<"U+1F1B">>, <<"U+1F13">>, <<"U+1F1B">>>>,
  <<<<"U+1F1C">>, <<"U+1F14">>, <<"U+1F1C">>>>,
  <<<<"U+1F1D">>, <<"U+1F15">>, <<"U+1F1D">>>>,
  <<<<"U+1F28">>, <<"U+1F20">>, <<"U+1F28">>>>,
  <<<<"U+1F29">>, <<"U+1F21">>, <<"U+1F29">>>>,
  <<<<"U+1F2A">>, <<"U+1F22">>, <<"U+1F2A">>>>,
  <<<<"U+1F2B">>, <<"U+1F23">>, <<"U+1F2B">>>>,
  <<<<"U+1F2C">>, <<"U+1F24">>, <<"U+1F2C">>>>,
  <<<<"U+1F2D">>, <<"U+1F25">>, <<"U+1F2D">>>>,
  <<<<"U+1F2E">>, <<"U+1F26">>, <<"U+1F2E">>>>,
  <<<<"U+1F2F">>, <<"U+1F27">>, <<"U+1F2F">>>>,
  <<<<"U+1F28">>, <<"U+1F20">>, <<"U+1F28">>>>,
  <<<<"U+1F29">>, <<"U+1F21">>, <<"U+1F29">>>>,
  <<<<"U+1F2A">>, <<"U+1F22">>, <<"U+1F2A">>>>,
  <<<<"U+1F2B">>, <<"U+1F23">>, <<"U+1F2B">>>>,
  <<<<"U+1F2C">>, <<"U+1F24">>, <<"U+1F2C">>>>,
  <<<<"U+1F2D">>, <<"U+1F25">>, <<"U+1F2D">>>>,
  <<<<"U+1F2E">>, <<"U+1F26">>, <<"U+1F2E">>>>,
  <<<<"U+1F2F">>, <<"U+1F27">>, <<"U+1F2F">>>>,
  <<<<"U+1F38">>, <<"U+1F30">>, <<"U+1F38">>>>,
  <<<<"U+1F39">>, <<"U+1F31">>, <<"U+1F39">>>>,
  <<<<"U+1F3A">>, <<"U+1F32">>, <<"U+1F3A">>>>,
  <<<<"U+1F3B">>, <<"U+1F33">>, <<"U+1F3B">>>>,
  <<<<"U+1F3C">>, <<"U+1F34">>, <<"U+1F3C">>>>,
  <<<<"U+1F3D">>, <<"U+1F35">>, <<"U+1F3D">>>>,
  <<<<"U+1F3E">>, <<"U+1F36">>, <<"U+1F3E">>>>,
  <<<<"U+1F3F">>, <<"U+1F37">>, <<"U+1F3F">>>>,
  <<<<"U+1F38">>, <<"U+1F30">>, <<"U+1F38">>>>,
  <<<<"U+1F39">>, <<"U+1F31">>, <<"U+1F39">>>>,
  <<<<"U+1F3A">>, <<"U+1F32">>, <<"U+1F3A">>>>,
  <<<<"U+1F3B">>, <<"U+1F33">>, <<"U+1F3B">>>>,
  <<<<"U+1F3C">>, <<"U+1F34">>, <<"U+1F3C">>>>,
  <<<<"U+1F3D">>, <<"U+1F35">>, <<"U+1F3D">>>>,
  <<<<"U+1F3E">>, <<"U+1F36">>, <<"U+1F3E">>>>,
  <<<<"U+1F3F">>, <<"U+1F37">>, <<"U+1F3F">>>>,
  <<<<"U+1F48">>, <<"U+1F40">>, <<"U+1F48">>>>,
  <<<<"U+1F49">>, <<"U+1F41">>, <<"U+1F49">>>>,
  <<<<"U+1F4A">>, <<"U+1F42">>, <<"U+1F4A">>>>,
  <<<<"U+1F4B">>, <<"U+1F43">>, <<"U+1F4B">>>>,
  <<<<"U+1F4C">>, <<"U+1F44">>, <<"U+1F4C">>>>,
  <<<<"U+1F4D">>, <<"U+1F45">>, <<"U+1F4D">>>>,
  <<<<"U+1F48">>, <<"U+1F40">>, <<"U+1F48">>>>,
  <<<<"U+1F49">>, <<"U+1F41">>, <<"U+1F49">>>>,
  <<<<"U+1F4A">>, <<"U+1F42">>, <<"U+1F4A">>>>,
  <<<<"U+1F4B">>, <<"U+1F43">>, <<"U+1F4B">>>>,
  <<<<"U+1F4C">>, <<"U+1F44">>, <<"U+1F4C">>>>,
  <<<<"U+1F4D">>, <<"U+1F45">>, <<"U+1F4D">>>>,
  <<<<"Υ", "U+0313">>, <<"U+1F50">>, <<"Υ", "U+0313">>>>,
  <<<<"U+1F59">>, <<"U+1F51">>, <<"U+1F59">>>>,
  <<<<"Υ", "U+0313", "U+0300">>, <<"U+1F52">>, <<"Υ", "U+0313", "U+0300">>>>,
  <<<<"U+1F5B">>, <<"U+1F53">>, <<"U+1F5B">>>>,
  <<<<"Υ", "U+0313", "U+0301">>, <<"U+1F54">>, <<"Υ", "U+0313", "U+0301">>>>,
  <<<<"U+1F5D">>, <<"U+1F55">>, <<"U+1F5D">>>>,
  <<<<"Υ", "U+0313", "U+0342">>, <<"U+1F56">>, <<"Υ", "U+0313", "U+0342">>>>,
  <<<<"U+1F5F">>, <<"U+1F57">>, <<"U+1F5F">>>>,
  <<<<"U+1F59">>, <<"U+1F51">>, <<"U+1F59">>>>,
  <<<<"U+1F5B">>, <<"U+1F53">>, <<"U+1F5B">>>>,
  <<<<"U+1F5D">>, <<"U+1F55">>, <<"U+1F5D">>>>,
  <<<<"U+1F5F">>, <<"U+1F57">>, <<"U+1F5F">>>>,
  <<<<"U+1F68">>, <<"U+1F60">>, <<"U+1F68">>>>,
  <<<<"U+1F69">>, <<"U+1F61">>, <<"U+1F69">>>>,
  <<<<"U+1F6A">>, <<"U+1F62">>, <<"U+1F6A">>>>,
  <<<<"U+1F6B">>, <<"U+1F63">>, <<"U+1F6B">>>>,
  <<<<"U+1F6C">>, <<"U+1F64">>, <<"U+1F6C">>>>,
  <<<<"U+1F6D">>, <<"U+1F65">>, <<"U+1F6D">>>>,
  <<<<"U+1F6E">>, <<"U+1F66">>, <<"U+1F6E">>>>,
  <<<<"U+1F6F">>, <<"U+1F67">>, <<"U+1F6F">>>>,
  <<<<"U+1F68">>, <<"U+1F60">>, <<"U+1F68">>>>,
  <<<<"U+1F69">>, <<"U+1F61">>, <<"U+1F69">>>>,
  <<<<"U+1F6A">>, <<"U+1F62">>, <<"U+1F6A">>>>,
  <<<<"U+1F6B">>, <<"U+1F63">>, <<"U+1F6B">>>>,
  <<<<"U+1F6C">>, <<"U+1F64">>, <<"U+1F6C">>>>,
  <<<<"U+1F6D">>, <<"U+1F65">>, <<"U+1F6D">>>>,
  <<<<"U+1F6E">>, <<"U+1F66">>, <<"U+1F6E">>>>,
  <<<<"U+1F6F">>, <<"U+1F67">>, <<"U+1F6F">>>>,
  <<<<"Ὰ">>, <<"U+1F70">>, <<"Ὰ">>>>, <<<<"Ά">>, <<"U+1F71">>, <<"Ά">>>>,
  <<<<"Ὲ">>, <<"U+1F72">>, <<"Ὲ">>>>, <<<<"Έ">>, <<"U+1F73">>, <<"Έ">>>>,
  <<<<"Ὴ">>, <<"U+1F74">>, <<"Ὴ">>>>, <<<<"Ή">>, <<"U+1F75">>, <<"Ή">>>>,
  <<<<"Ὶ">>, <<"U+1F76">>, <<"Ὶ">>>>, <<<<"Ί">>, <<"U+1F77">>, <<"Ί">>>>,
  <<<<"Ὸ">>, <<"U+1F78">>, <<"Ὸ">>>>, <<<<"Ό">>, <<"U+1F79">>, <<"Ό">>>>,
  <<<<"Ὺ">>, <<"U+1F7A">>, <<"Ὺ">>>>, <<<<"Ύ">>, <<"U+1F7B">>, <<"Ύ">>>>,
  <<<<"Ὼ">>, <<"U+1F7C">>, <<"Ὼ">>>>, <<<<"Ώ">>, <<"U+1F7D">>, <<"Ώ">>>>,
  <<<<"U+1F08", "Ι">>, <<"ᾀ">>, <<"ᾈ">>>>,
  <<<<"U+1F09", "Ι">>, <<"ᾁ">>, <<"ᾉ">>>>,
  <<<<"U+1F0A", "Ι">>, <<"ᾂ">>, <<"ᾊ">>>>,
  <<<<"U+1F0B", "Ι">>, <<"ᾃ">>, <<"ᾋ">>>>,
  <<<<"U+1F0C", "Ι">>, <<"ᾄ">>, <<"ᾌ">>>>,
  <<<<"U+1F0D", "Ι">>, <<"ᾅ">>, <<"ᾍ">>>>,
  <<<<"U+1F0E", "Ι">>, <<"ᾆ">>, <<"ᾎ">>>>,
  <<<<"U+1F0F", "Ι">>, <<"ᾇ">>, <<"ᾏ">>>>,
  <<<<"U+1F08", "Ι">>, <<"ᾀ">>, <<"ᾈ">>>>,
  <<<<"U+1F09", "Ι">>, <<"ᾁ">>, <<"ᾉ">>>>,
  <<<<"U+1F0A", "Ι">>, <<"ᾂ">>, <<"ᾊ">>>>,
  <<<<"U+1F0B", "Ι">>, <<"ᾃ">>, <<"ᾋ">>>>,
  <<<<"U+1F0C", "Ι">>, <<"ᾄ">>, <<"ᾌ">>>>,
  <<<<"U+1F0D", "Ι">>, <<"ᾅ">>, <<"ᾍ">>>>,
  <<<<"U+1F0E", "Ι">>, <<"ᾆ">>, <<"ᾎ">>>>,
  <<<<"U+1F0F", "Ι">>, <<"ᾇ">>, <<"ᾏ">>>>,
  <<<<"U+1F28", "Ι">>, <<"ᾐ">>, <<"ᾘ">>>>,
  <<<<"U+1F29", "Ι">>, <<"ᾑ">>, <<"ᾙ">>>>,
  <<<<"U+1F2A", "Ι">>, <<"ᾒ">>, <<"ᾚ">>>>,
  <<<<"U+1F2B", "Ι">>, <<"ᾓ">>, <<"ᾛ">>>>,
  <<<<"U+1F2C", "Ι">>, <<"ᾔ">>, <<"ᾜ">>>>,
  <<<<"U+1F2D", "Ι">>, <<"ᾕ">>, <<"ᾝ">>>>,
  <<<<"U+1F2E", "Ι">>, <<"ᾖ">>, <<"ᾞ">>>>,
  <<<<"U+1F2F", "Ι">>, <<"ᾗ">>, <<"ᾟ">>>>,
  <<<<"U+1F28", "Ι">>, <<"ᾐ">>, <<"ᾘ">>>>,
  <<<<"U+1F29", "Ι">>, <<"ᾑ">>, <<"ᾙ">>>>,
  <<<<"U+1F2A", "Ι">>, <<"ᾒ">>, <<"ᾚ">>>>,
  <<<<"U+1F2B", "Ι">>, <<"ᾓ">>, <<"ᾛ">>>>,
  <<<<"U+1F2C", "Ι">>, <<"ᾔ">>, <<"ᾜ">>>>,
  <<<<"U+1F2D", "Ι">>, <<"ᾕ">>, <<"ᾝ">>>>,
  <<<<"U+1F2E", "Ι">>, <<"ᾖ">>, <<"ᾞ">>>>,
  <<<<"U+1F2F", "Ι">>, <<"ᾗ">>, <<"ᾟ">>>>,
  <<<<"U+1F68", "Ι">>, <<"ᾠ">>, <<"ᾨ">>>>,
  <<<<"U+1F69", "Ι">>, <<"ᾡ">>, <<"ᾩ">>>>,
  <<<<"U+1F6A", "Ι">>, <<"ᾢ">>, <<"ᾪ">>>>,
  <<<<"U+1F6B", "Ι">>, <<"ᾣ">>, <<"ᾫ">>>>,
  <<<<"U+1F6C", "Ι">>, <<"ᾤ">>, <<"ᾬ">>>>,
  <<<<"U+1F6D", "Ι">>, <<"ᾥ">>, <<"ᾭ">>>>,
  <<<<"U+1F6E", "Ι">>, <<"ᾦ">>, <<"ᾮ">>>>,
  <<<<"U+1F6F", "Ι">>, <<"ᾧ">>, <<"ᾯ">>>>,
  <<<<"U+1F68", "Ι">>, <<"ᾠ">>, <<"ᾨ">>>>,
  <<<<"U+1F69", "Ι">>, <<"ᾡ">>, <<"ᾩ">>>>,
  <<<<"U+1F6A", "Ι">>, <<"ᾢ">>, <<"ᾪ">>>>,
  <<<<"U+1F6B", "Ι">>, <<"ᾣ">>, <<"ᾫ">>>>,
  <<<<"U+1F6C", "Ι">>, <<"ᾤ">>, <<"ᾬ">>>>,
  <<<<"U+1F6D", "Ι">>, <<"ᾥ">>, <<"ᾭ">>>>,
  <<<<"U+1F6E", "Ι">>, <<"ᾦ">>, <<"ᾮ">>>>,
  <<<<"U+1F6F", "Ι">>, <<"ᾧ">>, <<"ᾯ">>>>, <<<<"Ᾰ">>, <<"ᾰ">>, <<"Ᾰ">>>>,
  <<<<"Ᾱ">>, <<"ᾱ">>, <<"Ᾱ">>>>,
  <<<<"Ὰ", "Ι">>, <<"ᾲ">>, <<"Ὰ", "U+0345">>>>,
  <<<<"Α", "Ι">>, <<"ᾳ">>, <<"ᾼ">>>>,
  <<<<"Ά", "Ι">>, <<"ᾴ">>, <<"Ά", "U+0345">>>>,
  <<<<"Α", "U+0342">>, <<"ᾶ">>, <<"Α", "U+0342">>>>,
  <<<<"Α", "U+0342", "Ι">>, <<"ᾷ">>, <<"Α", "U+0342", "U+0345">>>>,
  <<<<"Ᾰ">>, <<"ᾰ">>, <<"Ᾰ">>>>, <<<<"Ᾱ">>, <<"ᾱ">>, <<"Ᾱ">>>>,
  <<<<"Ὰ">>, <<"U+1F70">>, <<"Ὰ">>>>, <<<<"Ά">>, <<"U+1F71">>, <<"Ά">>>>,
  <<<<"Α", "Ι">>, <<"ᾳ">>, <<"ᾼ">>>>, <<<<"Ι">>, <<"ι">>, <<"Ι">>>>,
  <<<<"Ὴ", "Ι">>, <<"ῂ">>, <<"Ὴ", "U+0345">>>>,
  <<<<"Η", "Ι">>, <<"ῃ">>, <<"ῌ">>>>,
  <<<<"Ή", "Ι">>, <<"ῄ">>, <<"Ή", "U+0345">>>>,
  <<<<"Η", "U+0342">>, <<"ῆ">>, <<"Η", "U+0342">>>>,
  <<<<"Η", "U+0342", "Ι">>, <<"ῇ">>, <<"Η", "U+0342", "U+0345">>>>,
  <<<<"Ὲ">>, <<"U+1F72">>, <<"Ὲ">>>>, <<<<"Έ">>, <<"U+1F73">>, <<"Έ">>>>,
  <<<<"Ὴ">>, <<"U+1F74">>, <<"Ὴ">>>>, <<<<"Ή">>, <<"U+1F75">>, <<"Ή">>>>,
  <<<<"Η", "Ι">>, <<"ῃ">>, <<"ῌ">>>>, <<<<"Ῐ">>, <<"ῐ">>, <<"Ῐ">>>>,
  <<<<"Ῑ">>, <<"ῑ">>, <<"Ῑ">>>>,
  <<<<"Ι", "U+0308", "U+0300">>, <<"ῒ">>, <<"Ι", "U+0308", "U+0300">>>>,
  <<<<"Ι", "U+0308", "U+0301">>, <<"ΐ">>, <<"Ι", "U+0308", "U+0301">>>>,
  <<<<"Ι", "U+0342">>, <<"ῖ">>, <<"Ι", "U+0342">>>>,
  <<<<"Ι", "U+0308", "U+0342">>, <<"ῗ">>, <<"Ι", "U+0308", "U+0342">>>>,
  <<<<"Ῐ">>, <<"ῐ">>, <<"Ῐ">>>>, <<<<"Ῑ">>, <<"ῑ">>, <<"Ῑ">>>>,
  <<<<"Ὶ">>, <<"U+1F76">>, <<"Ὶ">>>>, <<<<"Ί">>, <<"U+1F77">>, <<"Ί">>>>,
  <<<<"Ῠ">>, <<"ῠ">>, <<"Ῠ">>>>, <<<<"Ῡ">>, <<"ῡ">>, <<"Ῡ">>>>,
  <<<<"Υ", "U+0308", "U+0300">>, <<"ῢ">>, <<"Υ", "U+0308", "U+0300">>>>,
  <<<<"Υ", "U+0308", "U+0301">>, <<"ΰ">>, <<"Υ", "U+0308", "U+0301">>>>,
  <<<<"Ρ", "U+0313">>, <<"ῤ">>, <<"Ρ", "U+0313">>>>,
  <<<<"Ῥ">>, <<"ῥ">>, <<"Ῥ">>>>,
  <<<<"Υ", "U+0342">>, <<"ῦ">>, <<"Υ", "U+0342">>>>,
  <<<<"Υ", "U+0308", "U+0342">>, <<"ῧ">>, <<"Υ", "U+0308", "U+0342">>>>,
  <<<<"Ῠ">>, <<"ῠ">>, <<"Ῠ">>>>, <<<<"Ῡ">>, <<"ῡ">>, <<"Ῡ">>>>,
  <<<<"Ὺ">>, <<"U+1F7A">>, <<"Ὺ">>>>, <<<<"Ύ">>, <<"U+1F7B">>, <<"Ύ">>>>,
  <<<<"Ῥ">>, <<"ῥ">>, <<"Ῥ">>>>,
  <<<<"Ὼ", "Ι">>, <<"ῲ">>, <<"Ὼ", "U+0345">>>>,
  <<<<"Ω", "Ι">>, <<"ῳ">>, <<"ῼ">>>>,
  <<<<"Ώ", "Ι">>, <<"ῴ">>, <<"Ώ", "U+0345">>>>,
  <<<<"Ω", "U+0342">>, <<"ῶ">>, <<"Ω", "U+0342">>>>,
  <<<<"Ω", "U+0342", "Ι">>, <<"ῷ">>, <<"Ω", "U+0342", "U+0345">>>>,
  <<<<"Ὸ">>, <<"U+1F78">>, <<"Ὸ">>>>, <<<<"Ό">>, <<"U+1F79">>, <<"Ό">>>>,
  <<<<"Ὼ">>, <<"U+1F7C">>, <<"Ὼ">>>>, <<<<"Ώ">>, <<"U+1F7D">>, <<"Ώ">>>>,
  <<<<"Ω", "Ι">>, <<"ῳ">>, <<"ῼ">>>>,
  <<<<"U+2126">>, <<"ω">>, <<"U+2126">>>>,
  <<<<"U+212A">>, <<"k">>, <<"U+212A">>>>,
  <<<<"U+212B">>, <<"å">>, <<"U+212B">>>>,
  <<<<"U+2132">>, <<"U+214E">>, <<"U+2132">>>>,
  <<<<"U+2132">>, <<"U+214E">>, <<"U+2132">>>>,
  <<<<"U+2160">>, <<"U+2170">>, <<"U+2160">>>>,
  <<<<"U+2161">>, <<"U+2171">>, <<"U+2161">>>>,
  <<<<"U+2162">>, <<"U+2172">>, <<"U+2162">>>>,
  <<<<"U+2163">>, <<"U+2173">>, <<"U+2163">>>>,
  <<<<"U+2164">>, <<"U+2174">>, <<"U+2164">>>>,
  <<<<"U+2165">>, <<"U+2175">>, <<"U+2165">>>>,
  <<<<"U+2166">>, <<"U+2176">>, <<"U+2166">>>>,
  <<<<"U+2167">>, <<"U+2177">>, <<"U+2167">>>>,
  <<<<"U+2168">>, <<"U+2178">>, <<"U+2168">>>>,
  <<<<"U+2169">>, <<"U+2179">>, <<"U+2169">>>>,
  <<<<"U+216A">>, <<"U+217A">>, <<"U+216A">>>>,
  <<<<"U+216B">>, <<"U+217B">>, <<"U+216B">>>>,
  <<<<"U+216C">>, <<"U+217C">>, <<"U+216C">>>>,
  <<<<"U+216D">>, <<"U+217D">>, <<"U+216D">>>>,
  <<<<"U+216E">>, <<"U+217E">>, <<"U+216E">>>>,
  <<<<"U+216F">>, <<"U+217F">>, <<"U+216F">>>>,
  <<<<"U+2160">>, <<"U+2170">>, <<"U+2160">>>>,
  <<<<"U+2161">>, <<"U+2171">>, <<"U+2161">>>>,
  <<<<"U+2162">>, <<"U+2172">>, <<"U+2162">>>>,
  <<<<"U+2163">>, <<"U+2173">>, <<"U+2163">>>>,
  <<<<"U+2164">>, <<"U+2174">>, <<"U+2164">>>>,
  <<<<"U+2165">>, <<"U+2175">>, <<"U+2165">>>>,
  <<<<"U+2166">>, <<"U+2176">>, <<"U+2166">>>>,
  <<<<"U+2167">>, <<"U+2177">>, <<"U+2167">>>>,
  <<<<"U+2168">>, <<"U+2178">>, <<"U+2168">>>>,
  <<<<"U+2169">>, <<"U+2179">>, <<"U+2169">>>>,
  <<<<"U+216A">>, <<"U+217A">>, <<"U+216A">>>>,
  <<<<"U+216B">>, <<"U+217B">>, <<"U+216B">>>>,
  <<<<"U+216C">>, <<"U+217C">>, <<"U+216C">>>>,
  <<<<"U+216D">>, <<"U+217D">>, <<"U+216D">>>>,
  <<<<"U+216E">>, <<"U+217E">>, <<"U+216E">>>>,
  <<<<"U+216F">>, <<"U+217F">>, <<"U+216F">>>>,
  <<<<"Ↄ">>, <<"ↄ">>, <<"Ↄ">>>>, <<<<"Ↄ">>, <<"ↄ">>, <<"Ↄ">>>>,
  <<<<"Ⓐ">>, <<"ⓐ">>, <<"Ⓐ">>>>, <<<<"Ⓑ">>, <<"ⓑ">>, <<"Ⓑ">>>>,
  <<<<"Ⓒ">>, <<"ⓒ">>, <<"Ⓒ">>>>, <<<<"Ⓓ">>, <<"ⓓ">>, <<"Ⓓ">>>>,
  <<<<"Ⓔ">>, <<"ⓔ">>, <<"Ⓔ">>>>, <<<<"Ⓕ">>, <<"ⓕ">>, <<"Ⓕ">>>>,
  <<<<"Ⓖ">>, <<"ⓖ">>, <<"Ⓖ">>>>, <<<<"Ⓗ">>, <<"ⓗ">>, <<"Ⓗ">>>>,
  <<<<"Ⓘ">>, <<"ⓘ">>, <<"Ⓘ">>>>, <<<<"Ⓙ">>, <<"ⓙ">>, <<"Ⓙ">>>>,
  <<<<"Ⓚ">>, <<"ⓚ">>, <<"Ⓚ">>>>, <<<<"Ⓛ">>, <<"ⓛ">>, <<"Ⓛ">>>>,
  <<<<"Ⓜ">>, <<"ⓜ">>, <<"Ⓜ">>>>, <<<<"Ⓝ">>, <<"ⓝ">>, <<"Ⓝ">>>>,
  <<<<"Ⓞ">>, <<"ⓞ">>, <<"Ⓞ">>>>, <<<<"Ⓟ">>, <<"ⓟ">>, <<"Ⓟ">>>>,
  <<<<"Ⓠ">>, <<"ⓠ">>, <<"Ⓠ">>>>, <<<<"Ⓡ">>, <<"ⓡ">>, <<"Ⓡ">>>>,
  <<<<"Ⓢ">>, <<"ⓢ">>, <<"Ⓢ">>>>, <<<<"Ⓣ">>, <<"ⓣ">>, <<"Ⓣ">>>>,
  <<<<"Ⓤ">>, <<"ⓤ">>, <<"Ⓤ">>>>, <<<<"Ⓥ">>, <<"ⓥ">>, <<"Ⓥ">>>>,
  <<<<"Ⓦ">>, <<"ⓦ">>, <<"Ⓦ">>>>, <<<<"Ⓧ">>, <<"ⓧ">>, <<"Ⓧ">>>>,
  <<<<"Ⓨ">>, <<"ⓨ">>, <<"Ⓨ">>>>, <<<<"Ⓩ">>, <<"ⓩ">>, <<"Ⓩ">>>>,
  <<<<"Ⓐ">>, <<"ⓐ">>, <<"Ⓐ">>>>, <<<<"Ⓑ">>, <<"ⓑ">>, <<"Ⓑ">>>>,
  <<<<"Ⓒ">>, <<"ⓒ">>, <<"Ⓒ">>>>, <<<<"Ⓓ">>, <<"ⓓ">>, <<"Ⓓ">>>>,
  <<<<"Ⓔ">>, <<"ⓔ">>, <<"Ⓔ">>>>, <<<<"Ⓕ">>, <<"ⓕ">>, <<"Ⓕ">>>>,
  <<<<"Ⓖ">>, <<"ⓖ">>, <<"Ⓖ">>>>, <<<<"Ⓗ">>, <<"ⓗ">>, <<"Ⓗ">>>>,
  <<<<"Ⓘ">>, <<"ⓘ">>, <<"Ⓘ">>>>, <<<<"Ⓙ">>, <<"ⓙ">>, <<"Ⓙ">>>>,
  <<<<"Ⓚ">>, <<"ⓚ">>, <<"Ⓚ">>>>, <<<<"Ⓛ">>, <<"ⓛ">>, <<"Ⓛ">>>>,
  <<<<"Ⓜ">>, <<"ⓜ">>, <<"Ⓜ">>>>, <<<<"Ⓝ">>, <<"ⓝ">>, <<"Ⓝ">>>>,
  <<<<"Ⓞ">>, <<"ⓞ">>, <<"Ⓞ">>>>, <<<<"Ⓟ">>, <<"ⓟ">>, <<"Ⓟ">>>>,
  <<<<"Ⓠ">>, <<"ⓠ">>, <<"Ⓠ">>>>, <<<<"Ⓡ">>, <<"ⓡ">>, <<"Ⓡ">>>>,
  <<<<"Ⓢ">>, <<"ⓢ">>, <<"Ⓢ">>>>, <<<<"Ⓣ">>, <<"ⓣ">>, <<"Ⓣ">>>>,
  <<<<"Ⓤ">>, <<"ⓤ">>, <<"Ⓤ">>>>, <<<<"Ⓥ">>, <<"ⓥ">>, <<"Ⓥ">>>>,
  <<<<"Ⓦ">>, <<"ⓦ">>, <<"Ⓦ">>>>, <<<<"Ⓧ">>, <<"ⓧ">>, <<"Ⓧ">>>>,
  <<<<"Ⓨ">>, <<"ⓨ">>, <<"Ⓨ">>>>, <<<<"Ⓩ">>, <<"ⓩ">>, <<"Ⓩ">>>>,
  <<<<"U+2C00">>, <<"U+2C30">>, <<"U+2C00">>>>,
  <<<<"U+2C01">>, <<"U+2C31">>, <<"U+2C01">>>>,
  <<<<"U+2C02">>, <<"U+2C32">>, <<"U+2C02">>>>,
  <<<<"U+2C03">>, <<"U+2C33">>, <<"U+2C03">>>>,
  <<<<"U+2C04">>, <<"U+2C34">>, <<"U+2C04">>>>,
  <<<<"U+2C05">>, <<"U+2C35">>, <<"U+2C05">>>>,
  <<<<"U+2C06">>, <<"U+2C36">>, <<"U+2C06">>>>,
  <<<<"U+2C07">>, <<"U+2C37">>, <<"U+2C07">>>>,
  <<<<"U+2C08">>, <<"U+2C38">>, <<"U+2C08">>>>,
  <<<<"U+2C09">>, <<"U+2C39">>, <<"U+2C09">>>>,
  <<<<"U+2C0A">>, <<"U+2C3A">>, <<"U+2C0A">>>>,
  <<<<"U+2C0B">>, <<"U+2C3B">>, <<"U+2C0B">>>>,
  <<<<"U+2C0C">>, <<"U+2C3C">>, <<"U+2C0C">>>>,
  <<<<"U+2C0D">>, <<"U+2C3D">>, <<"U+2C0D">>>>,
  <<<<"U+2C0E">>, <<"U+2C3E">>, <<"U+2C0E">>>>,
  <<<<"U+2C0F">>, <<"U+2C3F">>, <<"U+2C0F">>>>,
  <<<<"U+2C10">>, <<"U+2C40">>, <<"U+2C10">>>>,
  <<<<"U+2C11">>, <<"U+2C41">>, <<"U+2C11">>>>,
  <<<<"U+2C12">>, <<"U+2C42">>, <<"U+2C12">>>>,
  <<<<"U+2C13">>, <<"U+2C43">>, <<"U+2C13">>>>,
  <<<<"U+2C14">>, <<"U+2C44">>, <<"U+2C14">>>>,
  <<<<"U+2C15">>, <<"U+2C45">>, <<"U+2C15">>>>,
  <<<<"U+2C16">>, <<"U+2C46">>, <<"U+2C16">>>>,
  <<<<"U+2C17">>, <<"U+2C47">>, <<"U+2C17">>>>,
  <<<<"U+2C18">>, <<"U+2C48">>, <<"U+2C18">>>>,
  <<<<"U+2C19">>, <<"U+2C49">>, <<"U+2C19">>>>,
  <<<<"U+2C1A">>, <<"U+2C4A">>, <<"U+2C1A">>>>,
  <<<<"U+2C1B">>, <<"U+2C4B">>, <<"U+2C1B">>>>,
  <<<<"U+2C1C">>, <<"U+2C4C">>, <<"U+2C1C">>>>,
  <<<<"U+2C1D">>, <<"U+2C4D">>, <<"U+2C1D">>>>,
  <<<<"U+2C1E">>, <<"U+2C4E">>, <<"U+2C1E">>>>,
  <<<<"U+2C1F">>, <<"U+2C4F">>, <<"U+2C1F">>>>,
  <<<<"U+2C20">>, <<"U+2C50">>, <<"U+2C20">>>>,
  <<<<"U+2C21">>, <<"U+2C51">>, <<"U+2C21">>>>,
  <<<<"U+2C22">>, <<"U+2C52">>, <<"U+2C22">>>>,
  <<<<"U+2C23">>, <<"U+2C53">>, <<"U+2C23">>>>,
  <<<<"U+2C24">>, <<"U+2C54">>, <<"U+2C24">>>>,
  <<<<"U+2C25">>, <<"U+2C55">>, <<"U+2C25">>>>,
  <<<<"U+2C26">>, <<"U+2C56">>, <<"U+2C26">>>>,
  <<<<"U+2C27">>, <<"U+2C57">>, <<"U+2C27">>>>,
  <<<<"U+2C28">>, <<"U+2C58">>, <<"U+2C28">>>>,
  <<<<"U+2C29">>, <<"U+2C59">>, <<"U+2C29">>>>,
  <<<<"U+2C2A">>, <<"U+2C5A">>, <<"U+2C2A">>>>,
  <<<<"U+2C2B">>, <<"U+2C5B">>, <<"U+2C2B">>>>,
  <<<<"U+2C2C">>, <<"U+2C5C">>, <<"U+2C2C">>>>,
  <<<<"U+2C2D">>, <<"U+2C5D">>, <<"U+2C2D">>>>,
  <<<<"U+2C2E">>, <<"U+2C5E">>, <<"U+2C2E">>>>,
  <<<<"U+2C2F">>, <<"U+2C5F">>, <<"U+2C2F">>>>,
  <<<<"U+2C00">>, <<"U+2C30">>, <<"U+2C00">>>>,
  <<<<"U+2C01">>, <<"U+2C31">>, <<"U+2C01">>>>,
  <<<<"U+2C02">>, <<"U+2C32">>, <<"U+2C02">>>>,
  <<<<"U+2C03">>, <<"U+2C33">>, <<"U+2C03">>>>,
  <<<<"U+2C04">>, <<"U+2C34">>, <<"U+2C04">>>>,
  <<<<"U+2C05">>, <<"U+2C35">>, <<"U+2C05">>>>,
  <<<<"U+2C06">>, <<"U+2C36">>, <<"U+2C06">>>>,
  <<<<"U+2C07">>, <<"U+2C37">>, <<"U+2C07">>>>,
  <<<<"U+2C08">>, <<"U+2C38">>, <<"U+2C08">>>>,
  <<<<"U+2C09">>, <<"U+2C39">>, <<"U+2C09">>>>,
  <<<<"U+2C0A">>, <<"U+2C3A">>, <<"U+2C0A">>>>,
  <<<<"U+2C0B">>, <<"U+2C3B">>, <<"U+2C0B">>>>,
  <<<<"U+2C0C">>, <<"U+2C3C">>, <<"U+2C0C">>>>,
  <<<<"U+2C0D">>, <<"U+2C3D">>, <<"U+2C0D">>>>,
  <<<<"U+2C0E">>, <<"U+2C3E">>, <<"U+2C0E">>>>,
  <<<<"U+2C0F">>, <<"U+2C3F">>, <<"U+2C0F">>>>,
  <<<<"U+2C10">>, <<"U+2C40">>, <<"U+2C10">>>>,
  <<<<"U+2C11">>, <<"U+2C41">>, <<"U+2C11">>>>,
  <<<<"U+2C12">>, <<"U+2C42">>, <<"U+2C12">>>>,
  <<<<"U+2C13">>, <<"U+2C43">>, <<"U+2C13">>>>,
  <<<<"U+2C14">>, <<"U+2C44">>, <<"U+2C14">>>>,
  <<<<"U+2C15">>, <<"U+2C45">>, <<"U+2C15">>>>,
  <<<<"U+2C16">>, <<"U+2C46">>, <<"U+2C16">>>>,
  <<<<"U+2C17">>, <<"U+2C47">>, <<"U+2C17">>>>,
  <<<<"U+2C18">>, <<"U+2C48">>, <<"U+2C18">>>>,
  <<<<"U+2C19">>, <<"U+2C49">>, <<"U+2C19">>>>,
  <<<<"U+2C1A">>, <<"U+2C4A">>, <<"U+2C1A">>>>,
  <<<<"U+2C1B">>, <<"U+2C4B">>, <<"U+2C1B">>>>,
  <<<<"U+2C1C">>, <<"U+2C4C">>, <<"U+2C1C">>>>,
  <<<<"U+2C1D">>, <<"U+2C4D">>, <<"U+2C1D">>>>,
  <<<<"U+2C1E">>, <<"U+2C4E">>, <<"U+2C1E">>>>,
  <<<<"U+2C1F">>, <<"U+2C4F">>, <<"U+2C1F">>>>,
  <<<<"U+2C20">>, <<"U+2C50">>, <<"U+2C20">>>>,
  <<<<"U+2C21">>, <<"U+2C51">>, <<"U+2C21">>>>,
  <<<<"U+2C22">>, <<"U+2C52">>, <<"U+2C22">>>>,
  <<<<"U+2C23">>, <<"U+2C53">>, <<"U+2C23">>>>,
  <<<<"U+2C24">>, <<"U+2C54">>, <<"U+2C24">>>>,
  <<<<"U+2C25">>, <<"U+2C55">>, <<"U+2C25">>>>,
  <<<<"U+2C26">>, <<"U+2C56">>, <<"U+2C26">>>>,
  <<<<"U+2C27">>, <<"U+2C57">>, <<"U+2C27">>>>,
  <<<<"U+2C28">>, <<"U+2C58">>, <<"U+2C28">>>>,
  <<<<"U+2C29">>, <<"U+2C59">>, <<"U+2C29">>>>,
  <<<<"U+2C2A">>, <<"U+2C5A">>, <<"U+2C2A">>>>,
  <<<<"U+2C2B">>, <<"U+2C5B">>, <<"U+2C2B">>>>,
  <<<<"U+2C2C">>, <<"U+2C5C">>, <<"U+2C2C">>>>,
  <<<<"U+2C2D">>, <<"U+2C5D">>, <<"U+2C2D">>>>,
  <<<<"U+2C2E">>, <<"U+2C5E">>, <<"U+2C2E">>>>,
  <<<<"U+2C2F">>, <<"U+2C5F">>, <<"U+2C2F">>>>,
  <<<<"U+2C60">>, <<"U+2C61">>, <<"U+2C60">>>>,
  <<<<"U+2C60">>, <<"U+2C61">>, <<"U+2C60">>>>,
  <<<<"U+2C62">>, <<"U+026B">>, <<"U+2C62">>>>,
  <<<<"U+2C63">>, <<"U+1D7D">>, <<"U+2C63">>>>,
  <<<<"U+2C64">>, <<"U+027D">>, <<"U+2C64">>>>,
  <<<<"U+023A">>, <<"U+2C65">>, <<"U+023A">>>>,
  <<<<"U+023E">>, <<"U+2C66">>, <<"U+023E">>>>,
  <<<<"U+2C67">>, <<"U+2C68">>, <<"U+2C67">>>>,
  <<<<"U+2C67">>, <<"U+2C68">>, <<"U+2C67">>>>,
  <<<<"U+2C69">>, <<"U+2C6A">>, <<"U+2C69">>>>,
  <<<<"U+2C69">>, <<"U+2C6A">>, <<"U+2C69">>>>,
  <<<<"U+2C6B">>, <<"U+2C6C">>, <<"U+2C6B">>>>,
  <<<<"U+2C6B">>, <<"U+2C6C">>, <<"U+2C6B">>>>,
  <<<<"U+2C6D">>, <<"U+0251">>, <<"U+2C6D">>>>,
  <<<<"U+2C6E">>, <<"U+0271">>, <<"U+2C6E">>>>,
  <<<<"U+2C6F">>, <<"U+0250">>, <<"U+2C6F">>>>,
  <<<<"U+2C70">>, <<"U+0252">>, <<"U+2C70">>>>,
  <<<<"U+2C72">>, <<"U+2C73">>, <<"U+2C72">>>>,
  <<<<"U+2C72">>, <<"U+2C73">>, <<"U+2C72">>>>,
  <<<<"U+2C75">>, <<"U+2C76">>, <<"U+2C75">>>>,
  <<<<"U+2C75">>, <<"U+2C76">>, <<"U+2C75">>>>,
  <<<<"U+2C7E">>, <<"U+023F">>, <<"U+2C7E">>>>,
  <<<<"U+2C7F">>, <<"U+0240">>, <<"U+2C7F">>>>,
  <<<<"Ⲁ">>, <<"ⲁ">>, <<"Ⲁ">>>>, <<<<"Ⲁ">>, <<"ⲁ">>, <<"Ⲁ">>>>,
  <<<<"Ⲃ">>, <<"ⲃ">>, <<"Ⲃ">>>>, <<<<"Ⲃ">>, <<"ⲃ">>, <<"Ⲃ">>>>,
  <<<<"Ⲅ">>, <<"ⲅ">>, <<"Ⲅ">>>>, <<<<"Ⲅ">>, <<"ⲅ">>, <<"Ⲅ">>>>,
  <<<<"Ⲇ">>, <<"ⲇ">>, <<"Ⲇ">>>>, <<<<"Ⲇ">>, <<"ⲇ">>, <<"Ⲇ">>>>,
  <<<<"Ⲉ">>, <<"ⲉ">>, <<"Ⲉ">>>>, <<<<"Ⲉ">>, <<"ⲉ">>, <<"Ⲉ">>>>,
  <<<<"Ⲋ">>, <<"ⲋ">>, <<"Ⲋ">>>>, <<<<"Ⲋ">>, <<"ⲋ">>, <<"Ⲋ">>>>,
  <<<<"Ⲍ">>, <<"ⲍ">>, <<"Ⲍ">>>>, <<<<"Ⲍ">>, <<"ⲍ">>, <<"Ⲍ">>>>,
  <<<<"Ⲏ">>, <<"ⲏ">>, <<"Ⲏ">>>>, <<<<"Ⲏ">>, <<"ⲏ">>, <<"Ⲏ">>>>,
  <<<<"Ⲑ">>, <<"ⲑ">>, <<"Ⲑ">>>>, <<<<"Ⲑ">>, <<"ⲑ">>, <<"Ⲑ">>>>,
  <<<<"Ⲓ">>, <<"ⲓ">>, <<"Ⲓ">>>>, <<<<"Ⲓ">>, <<"ⲓ">>, <<"Ⲓ">>>>,
  <<<<"Ⲕ">>, <<"ⲕ">>, <<"Ⲕ">>>>, <<<<"Ⲕ">>, <<"ⲕ">>, <<"Ⲕ">>>>,
  <<<<"Ⲗ">>, <<"ⲗ">>, <<"Ⲗ">>>>, <<<<"Ⲗ">>, <<"ⲗ">>, <<"Ⲗ">>>>,
  <<<<"Ⲙ">>, <<"ⲙ">>, <<"Ⲙ">>>>, <<<<"Ⲙ">>, <<"ⲙ">>, <<"Ⲙ">>>>,
  <<<<"Ⲛ">>, <<"ⲛ">>, <<"Ⲛ">>>>, <<<<"Ⲛ">>, <<"ⲛ">>, <<"Ⲛ">>>>,
  <<<<"Ⲝ">>, <<"ⲝ">>, <<"Ⲝ">>>>, <<<<"Ⲝ">>, <<"ⲝ">>, <<"Ⲝ">>>>,
  <<<<"Ⲟ">>, <<"ⲟ">>, <<"Ⲟ">>>>, <<<<"Ⲟ">>, <<"ⲟ">>, <<"Ⲟ">>>>,
  <<<<"Ⲡ">>, <<"ⲡ">>, <<"Ⲡ">>>>, <<<<"Ⲡ">>, <<"ⲡ">>, <<"Ⲡ">>>>,
  <<<<"Ⲣ">>, <<"ⲣ">>, <<"Ⲣ">>>>, <<<<"Ⲣ">>, <<"ⲣ">>, <<"Ⲣ">>>>,
  <<<<"Ⲥ">>, <<"ⲥ">>, <<"Ⲥ">>>>, <<<<"Ⲥ">>, <<"ⲥ">>, <<"Ⲥ">>>>,
  <<<<"Ⲧ">>, <<"ⲧ">>, <<"Ⲧ">>>>, <<<<"Ⲧ">>, <<"ⲧ">>, <<"Ⲧ">>>>,
  <<<<"Ⲩ">>, <<"ⲩ">>, <<"Ⲩ">>>>, <<<<"Ⲩ">>, <<"ⲩ">>, <<"Ⲩ">>>>,
  <<<<"Ⲫ">>, <<"ⲫ">>, <<"Ⲫ">>>>, <<<<"Ⲫ">>, <<"ⲫ">>, <<"Ⲫ">>>>,
  <<<<"Ⲭ">>, <<"ⲭ">>, <<"Ⲭ">>>>, <<<<"Ⲭ">>, <<"ⲭ">>, <<"Ⲭ">>>>,
  <<<<"Ⲯ">>, <<"ⲯ">>, <<"Ⲯ">>>>, <<<<"Ⲯ">>, <<"ⲯ">>, <<"Ⲯ">>>>,
  <<<<"Ⲱ">>, <<"ⲱ">>, <<"Ⲱ">>>>, <<<<"Ⲱ">>, <<"ⲱ">>, <<"Ⲱ">>>>,
  <<<<"Ⲳ">>, <<"ⲳ">>, <<"Ⲳ">>>>, <<<<"Ⲳ">>, <<"ⲳ">>, <<"Ⲳ">>>>,
  <<<<"Ⲵ">>, <<"ⲵ">>, <<"Ⲵ">>>>, <<<<"Ⲵ">>, <<"ⲵ">>, <<"Ⲵ">>>>,
  <<<<"Ⲷ">>, <<"ⲷ">>, <<"Ⲷ">>>>, <<<<"Ⲷ">>, <<"ⲷ">>, <<"Ⲷ">>>>,
  <<<<"Ⲹ">>, <<"ⲹ">>, <<"Ⲹ">>>>, <<<<"Ⲹ">>, <<"ⲹ">>, <<"Ⲹ">>>>,
  <<<<"Ⲻ">>, <<"ⲻ">>, <<"Ⲻ">>>>, <<<<"Ⲻ">>, <<"ⲻ">>, <<"Ⲻ">>>>,
  <<<<"Ⲽ">>, <<"ⲽ">>, <<"Ⲽ">>>>, <<<<"Ⲽ">>, <<"ⲽ">>, <<"Ⲽ">>>>,
  <<<<"Ⲿ">>, <<"ⲿ">>, <<"Ⲿ">>>>, <<<<"Ⲿ">>, <<"ⲿ">>, <<"Ⲿ">>>>,
  <<<<"Ⳁ">>, <<"ⳁ">>, <<"Ⳁ">>>>, <<<<"Ⳁ">>, <<"ⳁ">>, <<"Ⳁ">>>>,
  <<<<"Ⳃ">>, <<"ⳃ">>, <<"Ⳃ">>>>, <<<<"Ⳃ">>, <<"ⳃ">>, <<"Ⳃ">>>>,
  <<<<"Ⳅ">>, <<"ⳅ">>, <<"Ⳅ">>>>, <<<<"Ⳅ">>, <<"ⳅ">>, <<"Ⳅ">>>>,
  <<<<"Ⳇ">>, <<"ⳇ">>, <<"Ⳇ">>>>, <<<<"Ⳇ">>, <<"ⳇ">>, <<"Ⳇ">>>>,
  <<<<"Ⳉ">>, <<"ⳉ">>, <<"Ⳉ">>>>, <<<<"Ⳉ">>, <<"ⳉ">>, <<"Ⳉ">>>>,
  <<<<"Ⳋ">>, <<"ⳋ">>, <<"Ⳋ">>>>, <<<<"Ⳋ">>, <<"ⳋ">>, <<"Ⳋ">>>>,
  <<<<"Ⳍ">>, <<"ⳍ">>, <<"Ⳍ">>>>, <<<<"Ⳍ">>, <<"ⳍ">>, <<"Ⳍ">>>>,
  <<<<"Ⳏ">>, <<"ⳏ">>, <<"Ⳏ">>>>, <<<<"Ⳏ">>, <<"ⳏ">>, <<"Ⳏ">>>>,
  <<<<"Ⳑ">>, <<"ⳑ">>, <<"Ⳑ">>>>, <<<<"Ⳑ">>, <<"ⳑ">>, <<"Ⳑ">>>>,
  <<<<"Ⳓ">>, <<"ⳓ">>, <<"Ⳓ">>>>, <<<<"Ⳓ">>, <<"ⳓ">>, <<"Ⳓ">>>>,
  <<<<"Ⳕ">>, <<"ⳕ">>, <<"Ⳕ">>>>, <<<<"Ⳕ">>, <<"ⳕ">>, <<"Ⳕ">>>>,
  <<<<"Ⳗ">>, <<"ⳗ">>, <<"Ⳗ">>>>, <<<<"Ⳗ">>, <<"ⳗ">>, <<"Ⳗ">>>>,
  <<<<"Ⳙ">>, <<"ⳙ">>, <<"Ⳙ">>>>, <<<<"Ⳙ">>, <<"ⳙ">>, <<"Ⳙ">>>>,
  <<<<"Ⳛ">>, <<"ⳛ">>, <<"Ⳛ">>>>, <<<<"Ⳛ">>, <<"ⳛ">>, <<"Ⳛ">>>>,
  <<<<"Ⳝ">>, <<"ⳝ">>, <<"Ⳝ">>>>, <<<<"Ⳝ">>, <<"ⳝ">>, <<"Ⳝ">>>>,
  <<<<"Ⳟ">>, <<"ⳟ">>, <<"Ⳟ">>>>, <<<<"Ⳟ">>, <<"ⳟ">>, <<"Ⳟ">>>>,
  <<<<"Ⳡ">>, <<"ⳡ">>, <<"Ⳡ">>>>, <<<<"Ⳡ">>, <<"ⳡ">>, <<"Ⳡ">>>>,
  <<<<"Ⳣ">>, <<"ⳣ">>, <<"Ⳣ">>>>, <<<<"Ⳣ">>, <<"ⳣ">>, <<"Ⳣ">>>>,
  <<<<"Ⳬ">>, <<"ⳬ">>, <<"Ⳬ">>>>, <<<<"Ⳬ">>, <<"ⳬ">>, <<"Ⳬ">>>>,
  <<<<"Ⳮ">>, <<"ⳮ">>, <<"Ⳮ">>>>, <<<<"Ⳮ">>, <<"ⳮ">>, <<"Ⳮ">>>>,
  <<<<"Ⳳ">>, <<"ⳳ">>, <<"Ⳳ">>>>, <<<<"Ⳳ">>, <<"ⳳ">>, <<"Ⳳ">>>>,
  <<<<"Ⴀ">>, <<"U+2D00">>, <<"Ⴀ">>>>, <<<<"Ⴁ">>, <<"U+2D01">>, <<"Ⴁ">>>>,
  <<<<"Ⴂ">>, <<"U+2D02">>, <<"Ⴂ">>>>, <<<<"Ⴃ">>, <<"U+2D03">>, <<"Ⴃ">>>>,
  <<<<"Ⴄ">>, <<"U+2D04">>, <<"Ⴄ">>>>, <<<<"Ⴅ">>, <<"U+2D05">>, <<"Ⴅ">>>>,
  <<<<"Ⴆ">>, <<"U+2D06">>, <<"Ⴆ">>>>, <<<<"Ⴇ">>, <<"U+2D07">>, <<"Ⴇ">>>>,
  <<<<"Ⴈ">>, <<"U+2D08">>, <<"Ⴈ">>>>, <<<<"Ⴉ">>, <<"U+2D09">>, <<"Ⴉ">>>>,
  <<<<"Ⴊ">>, <<"U+2D0A">>, <<"Ⴊ">>>>, <<<<"Ⴋ">>, <<"U+2D0B">>, <<"Ⴋ">>>>,
  <<<<"Ⴌ">>, <<"U+2D0C">>, <<"Ⴌ">>>>, <<<<"Ⴍ">>, <<"U+2D0D">>, <<"Ⴍ">>>>,
  <<<<"Ⴎ">>, <<"U+2D0E">>, <<"Ⴎ">>>>, <<<<"Ⴏ">>, <<"U+2D0F">>, <<"Ⴏ">>>>,
  <<<<"Ⴐ">>, <<"U+2D10">>, <<"Ⴐ">>>>, <<<<"Ⴑ">>, <<"U+2D11">>, <<"Ⴑ">>>>,
  <<<<"Ⴒ">>, <<"U+2D12">>, <<"Ⴒ">>>>, <<<<"Ⴓ">>, <<"U+2D13">>, <<"Ⴓ">>>>,
  <<<<"Ⴔ">>, <<"U+2D14">>, <<"Ⴔ">>>>, <<<<"Ⴕ">>, <<"U+2D15">>, <<"Ⴕ">>>>,
  <<<<"Ⴖ">>, <<"U+2D16">>, <<"Ⴖ">>>>, <<<<"Ⴗ">>, <<"U+2D17">>, <<"Ⴗ">>>>,
  <<<<"Ⴘ">>, <<"U+2D18">>, <<"Ⴘ">>>>, <<<<"Ⴙ">>, <<"U+2D19">>, <<"Ⴙ">>>>,
  <<<<"Ⴚ">>, <<"U+2D1A">>, <<"Ⴚ">>>>, <<<<"Ⴛ">>, <<"U+2D1B">>, <<"Ⴛ">>>>,
  <<<<"Ⴜ">>, <<"U+2D1C">>, <<"Ⴜ">>>>, <<<<"Ⴝ">>, <<"U+2D1D">>, <<"Ⴝ">>>>,
  <<<<"Ⴞ">>, <<"U+2D1E">>, <<"Ⴞ">>>>, <<<<"Ⴟ">>, <<"U+2D1F">>, <<"Ⴟ">>>>,
  <<<<"Ⴠ">>, <<"U+2D20">>, <<"Ⴠ">>>>, <<<<"Ⴡ">>, <<"U+2D21">>, <<"Ⴡ">>>>,
  <<<<"Ⴢ">>, <<"U+2D22">>, <<"Ⴢ">>>>, <<<<"Ⴣ">>, <<"U+2D23">>, <<"Ⴣ">>>>,
  <<<<"Ⴤ">>, <<"U+2D24">>, <<"Ⴤ">>>>, <<<<"Ⴥ">>, <<"U+2D25">>, <<"Ⴥ">>>>,
  <<<<"Ⴧ">>, <<"U+2D27">>, <<"Ⴧ">>>>, <<<<"Ⴭ">>, <<"U+2D2D">>, <<"Ⴭ">>>>,
  <<<<"U+A640">>, <<"U+A641">>, <<"U+A640">>>>,
  <<<<"U+A640">>, <<"U+A641">>, <<"U+A640">>>>,
  <<<<"U+A642">>, <<"U+A643">>, <<"U+A642">>>>,
  <<<<"U+A642">>, <<"U+A643">>, <<"U+A642">>>>,
  <<<<"U+A644">>, <<"U+A645">>, <<"U+A644">>>>,
  <<<<"U+A644">>, <<"U+A645">>, <<"U+A644">>>>,
  <<<<"U+A646">>, <<"U+A647">>, <<"U+A646">>>>,
  <<<<"U+A646">>, <<"U+A647">>, <<"U+A646">>>>,
  <<<<"U+A648">>, <<"U+A649">>, <<"U+A648">>>>,
  <<<<"U+A648">>, <<"U+A649">>, <<"U+A648">>>>,
  <<<<"U+A64A">>, <<"U+A64B">>, <<"U+A64A">>>>,
  <<<<"U+A64A">>, <<"U+A64B">>, <<"U+A64A">>>>,
  <<<<"U+A64C">>, <<"U+A64D">>, <<"U+A64C">>>>,
  <<<<"U+A64C">>, <<"U+A64D">>, <<"U+A64C">>>>,
  <<<<"U+A64E">>, <<"U+A64F">>, <<"U+A64E">>>>,
  <<<<"U+A64E">>, <<"U+A64F">>, <<"U+A64E">>>>,
  <<<<"U+A650">>, <<"U+A651">>, <<"U+A650">>>>,
  <<<<"U+A650">>, <<"U+A651">>, <<"U+A650">>>>,
  <<<<"U+A652">>, <<"U+A653">>, <<"U+A652">>>>,
  <<<<"U+A652">>, <<"U+A653">>, <<"U+A652">>>>,
  <<<<"U+A654">>, <<"U+A655">>, <<"U+A654">>>>,
  <<<<"U+A654">>, <<"U+A655">>, <<"U+A654">>>>,
  <<<<"U+A656">>, <<"U+A657">>, <<"U+A656">>>>,
  <<<<"U+A656">>, <<"U+A657">>, <<"U+A656">>>>,
  <<<<"U+A658">>, <<"U+A659">>, <<"U+A658">>>>,
  <<<<"U+A658">>, <<"U+A659">>, <<"U+A658">>>>,
  <<<<"U+A65A">>, <<"U+A65B">>, <<"U+A65A">>>>,
  <<<<"U+A65A">>, <<"U+A65B">>, <<"U+A65A">>>>,
  <<<<"U+A65C">>, <<"U+A65D">>, <<"U+A65C">>>>,
  <<<<"U+A65C">>, <<"U+A65D">>, <<"U+A65C">>>>,
  <<<<"U+A65E">>, <<"U+A65F">>, <<"U+A65E">>>>,
  <<<<"U+A65E">>, <<"U+A65F">>, <<"U+A65E">>>>,
  <<<<"U+A660">>, <<"U+A661">>, <<"U+A660">>>>,
  <<<<"U+A660">>, <<"U+A661">>, <<"U+A660">>>>,
  <<<<"U+A662">>, <<"U+A663">>, <<"U+A662">>>>,
  <<<<"U+A662">>, <<"U+A663">>, <<"U+A662">>>>,
  <<<<"U+A664">>, <<"U+A665">>, <<"U+A664">>>>,
  <<<<"U+A664">>, <<"U+A665">>, <<"U+A664">>>>,
  <<<<"U+A666">>, <<"U+A667">>, <<"U+A666">>>>,
  <<<<"U+A666">>, <<"U+A667">>, <<"U+A666">>>>,
  <<<<"U+A668">>, <<"U+A669">>, <<"U+A668">>>>,
  <<<<"U+A668">>, <<"U+A669">>, <<"U+A668">>>>,
  <<<<"U+A66A">>, <<"U+A66B">>, <<"U+A66A">>>>,
  <<<<"U+A66A">>, <<"U+A66B">>, <<"U+A66A">>>>,
  <<<<"U+A66C">>, <<"U+A66D">>, <<"U+A66C">>>>,
  <<<<"U+A66C">>, <<"U+A66D">>, <<"U+A66C">>>>,
  <<<<"Ꚁ">>, <<"ꚁ">>, <<"Ꚁ">>>>, <<<<"Ꚁ">>, <<"ꚁ">>, <<"Ꚁ">>>>,
  <<<<"Ꚃ">>, <<"ꚃ">>, <<"Ꚃ">>>>, <<<<"Ꚃ">>, <<"ꚃ">>, <<"Ꚃ">>>>,
  <<<<"Ꚅ">>, <<"ꚅ">>, <<"Ꚅ">>>>, <<<<"Ꚅ">>, <<"ꚅ">>, <<"Ꚅ">>>>,
  <<<<"Ꚇ">>, <<"ꚇ">>, <<"Ꚇ">>>>, <<<<"Ꚇ">>, <<"ꚇ">>, <<"Ꚇ">>>>,
  <<<<"Ꚉ">>, <<"ꚉ">>, <<"Ꚉ">>>>, <<<<"Ꚉ">>, <<"ꚉ">>, <<"Ꚉ">>>>,
  <<<<"Ꚋ">>, <<"ꚋ">>, <<"Ꚋ">>>>, <<<<"Ꚋ">>, <<"ꚋ">>, <<"Ꚋ">>>>,
  <<<<"Ꚍ">>, <<"ꚍ">>, <<"Ꚍ">>>>, <<<<"Ꚍ">>, <<"ꚍ">>, <<"Ꚍ">>>>,
  <<<<"Ꚏ">>, <<"ꚏ">>, <<"Ꚏ">>>>, <<<<"Ꚏ">>, <<"ꚏ">>, <<"Ꚏ">>>>,
  <<<<"Ꚑ">>, <<"ꚑ">>, <<"Ꚑ">>>>, <<<<"Ꚑ">>, <<"ꚑ">>, <<"Ꚑ">>>>,
  <<<<"Ꚓ">>, <<"ꚓ">>, <<"Ꚓ">>>>, <<<<"Ꚓ">>, <<"ꚓ">>, <<"Ꚓ">>>>,
  <<<<"Ꚕ">>, <<"ꚕ">>, <<"Ꚕ">>>>, <<<<"Ꚕ">>, <<"ꚕ">>, <<"Ꚕ">>>>,
  <<<<"Ꚗ">>, <<"ꚗ">>, <<"Ꚗ">>>>, <<<<"Ꚗ">>, <<"ꚗ">>, <<"Ꚗ">>>>,
  <<<<"Ꚙ">>, <<"ꚙ">>, <<"Ꚙ">>>>, <<<<"Ꚙ">>, <<"ꚙ">>, <<"Ꚙ">>>>,
  <<<<"Ꚛ">>, <<"ꚛ">>, <<"Ꚛ">>>>, <<<<"Ꚛ">>, <<"ꚛ">>, <<"Ꚛ">>>>,
  <<<<"U+A722">>, <<"U+A723">>, <<"U+A722">>>>,
  <<<<"U+A722">>, <<"U+A723">>, <<"U+A722">>>>,
  <<<<"U+A724">>, <<"U+A725">>, <<"U+A724">>>>,
  <<<<"U+A724">>, <<"U+A725">>, <<"U+A724">>>>,
  <<<<"U+A726">>, <<"U+A727">>, <<"U+A726">>>>,
  <<<<"U+A726">>, <<"U+A727">>, <<"U+A726">>>>,
  <<<<"U+A728">>, <<"U+A729">>, <<"U+A728">>>>,
  <<<<"U+A728">>, <<"U+A729">>, <<"U+A728">>>>,
  <<<<"U+A72A">>, <<"U+A72B">>, <<"U+A72A">>>>,
  <<<<"U+A72A">>, <<"U+A72B">>, <<"U+A72A">>>>,
  <<<<"U+A72C">>, <<"U+A72D">>, <<"U+A72C">>>>,
  <<<<"U+A72C">>, <<"U+A72D">>, <<"U+A72C">>>>,
  <<<<"U+A72E">>, <<"U+A72F">>, <<"U+A72E">>>>,
  <<<<"U+A72E">>, <<"U+A72F">>, <<"U+A72E">>>>,
  <<<<"U+A732">>, <<"U+A733">>, <<"U+A732">>>>,
  <<<<"U+A732">>, <<"U+A733">>, <<"U+A732">>>>,
  <<<<"U+A734">>, <<"U+A735">>, <<"U+A734">>>>,
  <<<<"U+A734">>, <<"U+A735">>, <<"U+A734">>>>,
  <<<<"U+A736">>, <<"U+A737">>, <<"U+A736">>>>,
  <<<<"U+A736">>, <<"U+A737">>, <<"U+A736">>>>,
  <<<<"U+A738">>, <<"U+A739">>, <<"U+A738">>>>,
  <<<<"U+A738">>, <<"U+A739">>, <<"U+A738">>>>,
  <<<<"U+A73A">>, <<"U+A73B">>, <<"U+A73A">>>>,
  <<<<"U+A73A">>, <<"U+A73B">>, <<"U+A73A">>>>,
  <<<<"U+A73C">>, <<"U+A73D">>, <<"U+A73C">>>>,
  <<<<"U+A73C">>, <<"U+A73D">>, <<"U+A73C">>>>,
  <<<<"U+A73E">>, <<"U+A73F">>, <<"U+A73E">>>>,
  <<<<"U+A73E">>, <<"U+A73F">>, <<"U+A73E">>>>,
  <<<<"U+A740">>, <<"U+A741">>, <<"U+A740">>>>,
  <<<<"U+A740">>, <<"U+A741">>, <<"U+A740">>>>,
  <<<<"U+A742">>, <<"U+A743">>, <<"U+A742">>>>,
  <<<<"U+A742">>, <<"U+A743">>, <<"U+A742">>>>,
  <<<<"U+A744">>, <<"U+A745">>, <<"U+A744">>>>,
  <<<<"U+A744">>, <<"U+A745">>, <<"U+A744">>>>,
  <<<<"U+A746">>, <<"U+A747">>, <<"U+A746">>>>,
  <<<<"U+A746">>, <<"U+A747">>, <<"U+A746">>>>,
  <<<<"U+A748">>, <<"U+A749">>, <<"U+A748">>>>,
  <<<<"U+A748">>, <<"U+A749">>, <<"U+A748">>>>,
  <<<<"U+A74A">>, <<"U+A74B">>, <<"U+A74A">>>>,
  <<<<"U+A74A">>, <<"U+A74B">>, <<"U+A74A">>>>,
  <<<<"U+A74C">>, <<"U+A74D">>, <<"U+A74C">>>>,
  <<<<"U+A74C">>, <<"U+A74D">>, <<"U+A74C">>>>,
  <<<<"U+A74E">>, <<"U+A74F">>, <<"U+A74E">>>>,
  <<<<"U+A74E">>, <<"U+A74F">>, <<"U+A74E">>>>,
  <<<<"U+A750">>, <<"U+A751">>, <<"U+A750">>>>,
  <<<<"U+A750">>, <<"U+A751">>, <<"U+A750">>>>,
  <<<<"U+A752">>, <<"U+A753">>, <<"U+A752">>>>,
  <<<<"U+A752">>, <<"U+A753">>, <<"U+A752">>>>,
  <<<<"U+A754">>, <<"U+A755">>, <<"U+A754">>>>,
  <<<<"U+A754">>, <<"U+A755">>, <<"U+A754">>>>,
  <<<<"U+A756">>, <<"U+A757">>, <<"U+A756">>>>,
  <<<<"U+A756">>, <<"U+A757">>, <<"U+A756">>>>,
  <<<<"U+A758">>, <<"U+A759">>, <<"U+A758">>>>,
  <<<<"U+A758">>, <<"U+A759">>, <<"U+A758">>>>,
  <<<<"U+A75A">>, <<"U+A75B">>, <<"U+A75A">>>>,
  <<<<"U+A75A">>, <<"U+A75B">>, <<"U+A75A">>>>,
  <<<<"U+A75C">>, <<"U+A75D">>, <<"U+A75C">>>>,
  <<<<"U+A75C">>, <<"U+A75D">>, <<"U+A75C">>>>,
  <<<<"U+A75E">>, <<"U+A75F">>, <<"U+A75E">>>>,
  <<<<"U+A75E">>, <<"U+A75F">>, <<"U+A75E">>>>,
  <<<<"U+A760">>, <<"U+A761">>, <<"U+A760">>>>,
  <<<<"U+A760">>, <<"U+A761">>, <<"U+A760">>>>,
  <<<<"U+A762">>, <<"U+A763">>, <<"U+A762">>>>,
  <<<<"U+A762">>, <<"U+A763">>, <<"U+A762">>>>,
  <<<<"U+A764">>, <<"U+A765">>, <<"U+A764">>>>,
  <<<<"U+A764">>, <<"U+A765">>, <<"U+A764">>>>,
  <<<<"U+A766">>, <<"U+A767">>, <<"U+A766">>>>,
  <<<<"U+A766">>, <<"U+A767">>, <<"U+A766">>>>,
  <<<<"U+A768">>, <<"U+A769">>, <<"U+A768">>>>,
  <<<<"U+A768">>, <<"U+A769">>, <<"U+A768">>>>,
  <<<<"U+A76A">>, <<"U+A76B">>, <<"U+A76A">>>>,
  <<<<"U+A76A">>, <<"U+A76B">>, <<"U+A76A">>>>,
  <<<<"U+A76C">>, <<"U+A76D">>, <<"U+A76C">>>>,
  <<<<"U+A76C">>, <<"U+A76D">>, <<"U+A76C">>>>,
  <<<<"U+A76E">>, <<"U+A76F">>, <<"U+A76E">>>>,
  <<<<"U+A76E">>, <<"U+A76F">>, <<"U+A76E">>>>,
  <<<<"U+A779">>, <<"U+A77A">>, <<"U+A779">>>>,
  <<<<"U+A779">>, <<"U+A77A">>, <<"U+A779">>>>,
  <<<<"U+A77B">>, <<"U+A77C">>, <<"U+A77B">>>>,
  <<<<"U+A77B">>, <<"U+A77C">>, <<"U+A77B">>>>,
  <<<<"U+A77D">>, <<"U+1D79">>, <<"U+A77D">>>>,
  <<<<"U+A77E">>, <<"U+A77F">>, <<"U+A77E">>>>,
  <<<<"U+A77E">>, <<"U+A77F">>, <<"U+A77E">>>>,
  <<<<"Ꞁ">>, <<"ꞁ">>, <<"Ꞁ">>>>, <<<<"Ꞁ">>, <<"ꞁ">>, <<"Ꞁ">>>>,
  <<<<"Ꞃ">>, <<"ꞃ">>, <<"Ꞃ">>>>, <<<<"Ꞃ">>, <<"ꞃ">>, <<"Ꞃ">>>>,
  <<<<"Ꞅ">>, <<"ꞅ">>, <<"Ꞅ">>>>, <<<<"Ꞅ">>, <<"ꞅ">>, <<"Ꞅ">>>>,
  <<<<"Ꞇ">>, <<"ꞇ">>, <<"Ꞇ">>>>, <<<<"Ꞇ">>, <<"ꞇ">>, <<"Ꞇ">>>>,
  <<<<"Ꞌ">>, <<"ꞌ">>, <<"Ꞌ">>>>, <<<<"Ꞌ">>, <<"ꞌ">>, <<"Ꞌ">>>>,
  <<<<"Ɥ">>, <<"U+0265">>, <<"Ɥ">>>>, <<<<"Ꞑ">>, <<"ꞑ">>, <<"Ꞑ">>>>,
  <<<<"Ꞑ">>, <<"ꞑ">>, <<"Ꞑ">>>>, <<<<"Ꞓ">>, <<"ꞓ">>, <<"Ꞓ">>>>,
  <<<<"Ꞓ">>, <<"ꞓ">>, <<"Ꞓ">>>>, <<<<"Ꞔ">>, <<"ꞔ">>, <<"Ꞔ">>>>,
  <<<<"Ꞗ">>, <<"ꞗ">>, <<"Ꞗ">>>>, <<<<"Ꞗ">>, <<"ꞗ">>, <<"Ꞗ">>>>,
  <<<<"Ꞙ">>, <<"ꞙ">>, <<"Ꞙ">>>>, <<<<"Ꞙ">>, <<"ꞙ">>, <<"Ꞙ">>>>,
  <<<<"Ꞛ">>, <<"ꞛ">>, <<"Ꞛ">>>>, <<<<"Ꞛ">>, <<"ꞛ">>, <<"Ꞛ">>>>,
  <<<<"Ꞝ">>, <<"ꞝ">>, <<"Ꞝ">>>>, <<<<"Ꞝ">>, <<"ꞝ">>, <<"Ꞝ">>>>,
  <<<<"Ꞟ">>, <<"ꞟ">>, <<"Ꞟ">>>>, <<<<"Ꞟ">>, <<"ꞟ">>, <<"Ꞟ">>>>,
  <<<<"Ꞡ">>, <<"ꞡ">>, <<"Ꞡ">>>>, <<<<"Ꞡ">>, <<"ꞡ">>, <<"Ꞡ">>>>,
  <<<<"Ꞣ">>, <<"ꞣ">>, <<"Ꞣ">>>>, <<<<"Ꞣ">>, <<"ꞣ">>, <<"Ꞣ">>>>,
  <<<<"Ꞥ">>, <<"ꞥ">>, <<"Ꞥ">>>>, <<<<"Ꞥ">>, <<"ꞥ">>, <<"Ꞥ">>>>,
  <<<<"Ꞧ">>, <<"ꞧ">>, <<"Ꞧ">>>>, <<<<"Ꞧ">>, <<"ꞧ">>, <<"Ꞧ">>>>,
  <<<<"Ꞩ">>, <<"ꞩ">>, <<"Ꞩ">>>>, <<<<"Ꞩ">>, <<"ꞩ">>, <<"Ꞩ">>>>,
  <<<<"Ɦ">>, <<"U+0266">>, <<"Ɦ">>>>, <<<<"Ɜ">>, <<"U+025C">>, <<"Ɜ">>>>,
  <<<<"Ɡ">>, <<"U+0261">>, <<"Ɡ">>>>, <<<<"Ɬ">>, <<"U+026C">>, <<"Ɬ">>>>,
  <<<<"Ɪ">>, <<"U+026A">>, <<"Ɪ">>>>, <<<<"Ʞ">>, <<"ʞ">>, <<"Ʞ">>>>,
  <<<<"Ʇ">>, <<"ʇ">>, <<"Ʇ">>>>, <<<<"Ʝ">>, <<"ʝ">>, <<"Ʝ">>>>,
  <<<<"Ꭓ">>, <<"U+AB53">>, <<"Ꭓ">>>>, <<<<"Ꞵ">>, <<"ꞵ">>, <<"Ꞵ">>>>,
  <<<<"Ꞵ">>, <<"ꞵ">>, <<"Ꞵ">>>>, <<<<"Ꞷ">>, <<"ꞷ">>, <<"Ꞷ">>>>,
  <<<<"Ꞷ">>, <<"ꞷ">>, <<"Ꞷ">>>>, <<<<"Ꞹ">>, <<"ꞹ">>, <<"Ꞹ">>>>,
  <<<<"Ꞹ">>, <<"ꞹ">>, <<"Ꞹ">>>>, <<<<"Ꞻ">>, <<"ꞻ">>, <<"Ꞻ">>>>,
  <<<<"Ꞻ">>, <<"ꞻ">>, <<"Ꞻ">>>>, <<<<"Ꞽ">>, <<"ꞽ">>, <<"Ꞽ">>>>,
  <<<<"Ꞽ">>, <<"ꞽ">>, <<"Ꞽ">>>>, <<<<"Ꞿ">>, <<"ꞿ">>, <<"Ꞿ">>>>,
  <<<<"Ꞿ">>, <<"ꞿ">>, <<"Ꞿ">>>>, <<<<"Ꟁ">>, <<"ꟁ">>, <<"Ꟁ">>>>,
  <<<<"Ꟁ">>, <<"ꟁ">>, <<"Ꟁ">>>>, <<<<"Ꟃ">>, <<"ꟃ">>, <<"Ꟃ">>>>,
  <<<<"Ꟃ">>, <<"ꟃ">>, <<"Ꟃ">>>>, <<<<"Ꞔ">>, <<"ꞔ">>, <<"Ꞔ">>>>,
  <<<<"Ʂ">>, <<"ʂ">>, <<"Ʂ">>>>, <<<<"Ᶎ">>, <<"ᶎ">>, <<"Ᶎ">>>>,
  <<<<"Ꟈ">>, <<"ꟈ">>, <<"Ꟈ">>>>, <<<<"Ꟈ">>, <<"ꟈ">>, <<"Ꟈ">>>>,
  <<<<"Ꟊ">>, <<"ꟊ">>, <<"Ꟊ">>>>, <<<<"Ꟊ">>, <<"ꟊ">>, <<"Ꟊ">>>>,
  <<<<"Ꟑ">>, <<"ꟑ">>, <<"Ꟑ">>>>, <<<<"Ꟑ">>, <<"ꟑ">>, <<"Ꟑ">>>>,
  <<<<"Ꟗ">>, <<"ꟗ">>, <<"Ꟗ">>>>, <<<<"Ꟗ">>, <<"ꟗ">>, <<"Ꟗ">>>>,
  <<<<"Ꟙ">>, <<"ꟙ">>, <<"Ꟙ">>>>, <<<<"Ꟙ">>, <<"ꟙ">>, <<"Ꟙ">>>>,
  <<<<"Ꟶ">>, <<"ꟶ">>, <<"Ꟶ">>>>, <<<<"Ꟶ">>, <<"ꟶ">>, <<"Ꟶ">>>>,
  <<<<"Ꭓ">>, <<"U+AB53">>, <<"Ꭓ">>>>, <<<<"Ꭰ">>, <<"U+AB70">>, <<"Ꭰ">>>>,
  <<<<"Ꭱ">>, <<"U+AB71">>, <<"Ꭱ">>>>, <<<<"Ꭲ">>, <<"U+AB72">>, <<"Ꭲ">>>>,
  <<<<"Ꭳ">>, <<"U+AB73">>, <<"Ꭳ">>>>, <<<<"Ꭴ">>, <<"U+AB74">>, <<"Ꭴ">>>>,
  <<<<"Ꭵ">>, <<"U+AB75">>, <<"Ꭵ">>>>, <<<<"Ꭶ">>, <<"U+AB76">>, <<"Ꭶ">>>>,
  <<<<"Ꭷ">>, <<"U+AB77">>, <<"Ꭷ">>>>, <<<<"Ꭸ">>, <<"U+AB78">>, <<"Ꭸ">>>>,
  <<<<"Ꭹ">>, <<"U+AB79">>, <<"Ꭹ">>>>, <<<<"Ꭺ">>, <<"U+AB7A">>, <<"Ꭺ">>>>,
  <<<<"Ꭻ">>, <<"U+AB7B">>, <<"Ꭻ">>>>, <<<<"Ꭼ">>, <<"U+AB7C">>, <<"Ꭼ">>>>,
  <<<<"Ꭽ">>, <<"U+AB7D">>, <<"Ꭽ">>>>, <<<<"Ꭾ">>, <<"U+AB7E">>, <<"Ꭾ">>>>,
  <<<<"Ꭿ">>, <<"U+AB7F">>, <<"Ꭿ">>>>, <<<<"Ꮀ">>, <<"ꮀ">>, <<"Ꮀ">>>>,
  <<<<"Ꮁ">>, <<"ꮁ">>, <<"Ꮁ">>>>, <<<<"Ꮂ">>, <<"ꮂ">>, <<"Ꮂ">>>>,
  <<<<"Ꮃ">>, <<"ꮃ">>, <<"Ꮃ">>>>, <<<<"Ꮄ">>, <<"ꮄ">>, <<"Ꮄ">>>>,
  <<<<"Ꮅ">>, <<"ꮅ">>, <<"Ꮅ">>>>, <<<<"Ꮆ">>, <<"ꮆ">>, <<"Ꮆ">>>>,
  <<<<"Ꮇ">>, <<"ꮇ">>, <<"Ꮇ">>>>, <<<<"Ꮈ">>, <<"ꮈ">>, <<"Ꮈ">>>>,
  <<<<"Ꮉ">>, <<"ꮉ">>, <<"Ꮉ">>>>, <<<<"Ꮊ">>, <<"ꮊ">>, <<"Ꮊ">>>>,
  <<<<"Ꮋ">>, <<"ꮋ">>, <<"Ꮋ">>>>, <<<<"Ꮌ">>, <<"ꮌ">>, <<"Ꮌ">>>>,
  <<<<"Ꮍ">>, <<"ꮍ">>, <<"Ꮍ">>>>, <<<<"Ꮎ">>, <<"ꮎ">>, <<"Ꮎ">>>>,
  <<<<"Ꮏ">>, <<"ꮏ">>, <<"Ꮏ">>>>, <<<<"Ꮐ">>, <<"ꮐ">>, <<"Ꮐ">>>>,
  <<<<"Ꮑ">>, <<"ꮑ">>, <<"Ꮑ">>>>, <<<<"Ꮒ">>, <<"ꮒ">>, <<"Ꮒ">>>>,
  <<<<"Ꮓ">>, <<"ꮓ">>, <<"Ꮓ">>>>, <<<<"Ꮔ">>, <<"ꮔ">>, <<"Ꮔ">>>>,
  <<<<"Ꮕ">>, <<"ꮕ">>, <<"Ꮕ">>>>, <<<<"Ꮖ">>, <<"ꮖ">>, <<"Ꮖ">>>>,
  <<<<"Ꮗ">>, <<"ꮗ">>, <<"Ꮗ">>>>, <<<<"Ꮘ">>, <<"ꮘ">>, <<"Ꮘ">>>>,
  <<<<"Ꮙ">>, <<"ꮙ">>, <<"Ꮙ">>>>, <<<<"Ꮚ">>, <<"ꮚ">>, <<"Ꮚ">>>>,
  <<<<"Ꮛ">>, <<"ꮛ">>, <<"Ꮛ">>>>, <<<<"Ꮜ">>, <<"ꮜ">>, <<"Ꮜ">>>>,
  <<<<"Ꮝ">>, <<"ꮝ">>, <<"Ꮝ">>>>, <<<<"Ꮞ">>, <<"ꮞ">>, <<"Ꮞ">>>>,
  <<<<"Ꮟ">>, <<"ꮟ">>, <<"Ꮟ">>>>, <<<<"Ꮠ">>, <<"ꮠ">>, <<"Ꮠ">>>>,
  <<<<"Ꮡ">>, <<"ꮡ">>, <<"Ꮡ">>>>, <<<<"Ꮢ">>, <<"ꮢ">>, <<"Ꮢ">>>>,
  <<<<"Ꮣ">>, <<"ꮣ">>, <<"Ꮣ">>>>, <<<<"Ꮤ">>, <<"ꮤ">>, <<"Ꮤ">>>>,
  <<<<"Ꮥ">>, <<"ꮥ">>, <<"Ꮥ">>>>, <<<<"Ꮦ">>, <<"ꮦ">>, <<"Ꮦ">>>>,
  <<<<"Ꮧ">>, <<"ꮧ">>, <<"Ꮧ">>>>, <<<<"Ꮨ">>, <<"ꮨ">>, <<"Ꮨ">>>>,
  <<<<"Ꮩ">>, <<"ꮩ">>, <<"Ꮩ">>>>, <<<<"Ꮪ">>, <<"ꮪ">>, <<"Ꮪ">>>>,
  <<<<"Ꮫ">>, <<"ꮫ">>, <<"Ꮫ">>>>, <<<<"Ꮬ">>, <<"ꮬ">>, <<"Ꮬ">>>>,
  <<<<"Ꮭ">>, <<"ꮭ">>, <<"Ꮭ">>>>, <<<<"Ꮮ">>, <<"ꮮ">>, <<"Ꮮ">>>>,
  <<<<"Ꮯ">>, <<"ꮯ">>, <<"Ꮯ">>>>, <<<<"Ꮰ">>, <<"ꮰ">>, <<"Ꮰ">>>>,
  <<<<"Ꮱ">>, <<"ꮱ">>, <<"Ꮱ">>>>, <<<<"Ꮲ">>, <<"ꮲ">>, <<"Ꮲ">>>>,
  <<<<"Ꮳ">>, <<"ꮳ">>, <<"Ꮳ">>>>, <<<<"Ꮴ">>, <<"ꮴ">>, <<"Ꮴ">>>>,
  <<<<"Ꮵ">>, <<"ꮵ">>, <<"Ꮵ">>>>, <<<<"Ꮶ">>, <<"ꮶ">>, <<"Ꮶ">>>>,
  <<<<"Ꮷ">>, <<"ꮷ">>, <<"Ꮷ">>>>, <<<<"Ꮸ">>, <<"ꮸ">>, <<"Ꮸ">>>>,
  <<<<"Ꮹ">>, <<"ꮹ">>, <<"Ꮹ">>>>, <<<<"Ꮺ">>, <<"ꮺ">>, <<"Ꮺ">>>>,
  <<<<"Ꮻ">>, <<"ꮻ">>, <<"Ꮻ">>>>, <<<<"Ꮼ">>, <<"ꮼ">>, <<"Ꮼ">>>>,
  <<<<"Ꮽ">>, <<"ꮽ">>, <<"Ꮽ">>>>, <<<<"Ꮾ">>, <<"ꮾ">>, <<"Ꮾ">>>>,
  <<<<"Ꮿ">>, <<"ꮿ">>, <<"Ꮿ">>>>,
  <<<<"F", "F">>, <<"U+FB00">>, <<"F", "f">>>>,
  <<<<"F", "I">>, <<"U+FB01">>, <<"F", "i">>>>,
  <<<<"F", "L">>, <<"U+FB02">>, <<"F", "l">>>>,
  <<<<"F", "F", "I">>, <<"U+FB03">>, <<"F", "f", "i">>>>,
  <<<<"F", "F", "L">>, <<"U+FB04">>, <<"F", "f", "l">>>>,
  <<<<"S", "T">>, <<"U+FB05">>, <<"S", "t">>>>,
  <<<<"S", "T">>, <<"U+FB06">>, <<"S", "t">>>>,
  <<<<"U+0544", "U+0546">>, <<"U+FB13">>, <<"U+0544", "U+0576">>>>,
  <<<<"U+0544", "U+0535">>, <<"U+FB14">>, <<"U+0544", "U+0565">>>>,
  <<<<"U+0544", "U+053B">>, <<"U+FB15">>, <<"U+0544", "U+056B">>>>,
  <<<<"U+054E", "U+0546">>, <<"U+FB16">>, <<"U+054E", "U+0576">>>>,
  <<<<"U+0544", "U+053D">>, <<"U+FB17">>, <<"U+0544", "U+056D">>>>,
  <<<<"U+FF21">>, <<"U+FF41">>, <<"U+FF21">>>>,
  <<<<"U+FF22">>, <<"U+FF42">>, <<"U+FF22">>>>,
  <<<<"U+FF23">>, <<"U+FF43">>, <<"U+FF23">>>>,
  <<<<"U+FF24">>, <<"U+FF44">>, <<"U+FF24">>>>,
  <<<<"U+FF25">>, <<"U+FF45">>, <<"U+FF25">>>>,
  <<<<"U+FF26">>, <<"U+FF46">>, <<"U+FF26">>>>,
  <<<<"U+FF27">>, <<"U+FF47">>, <<"U+FF27">>>>,
  <<<<"U+FF28">>, <<"U+FF48">>, <<"U+FF28">>>>,
  <<<<"U+FF29">>, <<"U+FF49">>, <<"U+FF29">>>>,
  <<<<"U+FF2A">>, <<"U+FF4A">>, <<"U+FF2A">>>>,
  <<<<"U+FF2B">>, <<"U+FF4B">>, <<"U+FF2B">>>>,
  <<<<"U+FF2C">>, <<"U+FF4C">>, <<"U+FF2C">>>>,
  <<<<"U+FF2D">>, <<"U+FF4D">>, <<"U+FF2D">>>>,
  <<<<"U+FF2E">>, <<"U+FF4E">>, <<"U+FF2E">>>>,
  <<<<"U+FF2F">>, <<"U+FF4F">>, <<"U+FF2F">>>>,
  <<<<"U+FF30">>, <<"U+FF50">>, <<"U+FF30">>>>,
  <<<<"U+FF31">>, <<"U+FF51">>, <<"U+FF31">>>>,
  <<<<"U+FF32">>, <<"U+FF52">>, <<"U+FF32">>>>,
  <<<<"U+FF33">>, <<"U+FF53">>, <<"U+FF33">>>>,
  <<<<"U+FF34">>, <<"U+FF54">>, <<"U+FF34">>>>,
  <<<<"U+FF35">>, <<"U+FF55">>, <<"U+FF35">>>>,
  <<<<"U+FF36">>, <<"U+FF56">>, <<"U+FF36">>>>,
  <<<<"U+FF37">>, <<"U+FF57">>, <<"U+FF37">>>>,
  <<<<"U+FF38">>, <<"U+FF58">>, <<"U+FF38">>>>,
  <<<<"U+FF39">>, <<"U+FF59">>, <<"U+FF39">>>>,
  <<<<"U+FF3A">>, <<"U+FF5A">>, <<"U+FF3A">>>>,
  <<<<"U+FF21">>, <<"U+FF41">>, <<"U+FF21">>>>,
  <<<<"U+FF22">>, <<"U+FF42">>, <<"U+FF22">>>>,
  <<<<"U+FF23">>, <<"U+FF43">>, <<"U+FF23">>>>,
  <<<<"U+FF24">>, <<"U+FF44">>, <<"U+FF24">>>>,
  <<<<"U+FF25">>, <<"U+FF45">>, <<"U+FF25">>>>,
  <<<<"U+FF26">>, <<"U+FF46">>, <<"U+FF26">>>>,
  <<<<"U+FF27">>, <<"U+FF47">>, <<"U+FF27">>>>,
  <<<<"U+FF28">>, <<"U+FF48">>, <<"U+FF28">>>>,
  <<<<"U+FF29">>, <<"U+FF49">>, <<"U+FF29">>>>,
  <<<<"U+FF2A">>, <<"U+FF4A">>, <<"U+FF2A">>>>,
  <<<<"U+FF2B">>, <<"U+FF4B">>, <<"U+FF2B">>>>,
  <<<<"U+FF2C">>, <<"U+FF4C">>, <<"U+FF2C">>>>,
  <<<<"U+FF2D">>, <<"U+FF4D">>, <<"U+FF2D">>>>,
  <<<<"U+FF2E">>, <<"U+FF4E">>, <<"U+FF2E">>>>,
  <<<<"U+FF2F">>, <<"U+FF4F">>, <<"U+FF2F">>>>,
  <<<<"U+FF30">>, <<"U+FF50">>, <<"U+FF30">>>>,
  <<<<"U+FF31">>, <<"U+FF51">>, <<"U+FF31">>>>,
  <<<<"U+FF32">>, <<"U+FF52">>, <<"U+FF32">>>>,
  <<<<"U+FF33">>, <<"U+FF53">>, <<"U+FF33">>>>,
  <<<<"U+FF34">>, <<"U+FF54">>, <<"U+FF34">>>>,
  <<<<"U+FF35">>, <<"U+FF55">>, <<"U+FF35">>>>,
  <<<<"U+FF36">>, <<"U+FF56">>, <<"U+FF36">>>>,
  <<<<"U+FF37">>, <<"U+FF57">>, <<"U+FF37">>>>,
  <<<<"U+FF38">>, <<"U+FF58">>, <<"U+FF38">>>>,
  <<<<"U+FF39">>, <<"U+FF59">>, <<"U+FF39">>>>,
  <<<<"U+FF3A">>, <<"U+FF5A">>, <<"U+FF3A">>>>,
  <<<<"U+10400">>, <<"U+10428">>, <<"U+10400">>>>,
  <<<<"U+10401">>, <<"U+10429">>, <<"U+10401">>>>,
  <<<<"U+10402">>, <<"U+1042A">>, <<"U+10402">>>>,
  <<<<"U+10403">>, <<"U+1042B">>, <<"U+10403">>>>,
  <<<<"U+10404">>, <<"U+1042C">>, <<"U+10404">>>>,
  <<<<"U+10405">>, <<"U+1042D">>, <<"U+10405">>>>,
  <<<<"U+10406">>, <<"U+1042E">>, <<"U+10406">>>>,
  <<<<"U+10407">>, <<"U+1042F">>, <<"U+10407">>>>,
  <<<<"U+10408">>, <<"U+10430">>, <<"U+10408">>>>,
  <<<<"U+10409">>, <<"U+10431">>, <<"U+10409">>>>,
  <<<<"U+1040A">>, <<"U+10432">>, <<"U+1040A">>>>,
  <<<<"U+1040B">>, <<"U+10433">>, <<"U+1040B">>>>,
  <<<<"U+1040C">>, <<"U+10434">>, <<"U+1040C">>>>,
  <<<<"U+1040D">>, <<"U+10435">>, <<"U+1040D">>>>,
  <<<<"U+1040E">>, <<"U+10436">>, <<"U+1040E">>>>,
  <<<<"U+1040F">>, <<"U+10437">>, <<"U+1040F">>>>,
  <<<<"U+10410">>, <<"U+10438">>, <<"U+10410">>>>,
  <<<<"U+10411">>, <<"U+10439">>, <<"U+10411">>>>,
  <<<<"U+10412">>, <<"U+1043A">>, <<"U+10412">>>>,
  <<<<"U+10413">>, <<"U+1043B">>, <<"U+10413">>>>,
  <<<<"U+10414">>, <<"U+1043C">>, <<"U+10414">>>>,
  <<<<"U+10415">>, <<"U+1043D">>, <<"U+10415">>>>,
  <<<<"U+10416">>, <<"U+1043E">>, <<"U+10416">>>>,
  <<<<"U+10417">>, <<"U+1043F">>, <<"U+10417">>>>,
  <<<<"U+10418">>, <<"U+10440">>, <<"U+10418">>>>,
  <<<<"U+10419">>, <<"U+10441">>, <<"U+10419">>>>,
  <<<<"U+1041A">>, <<"U+10442">>, <<"U+1041A">>>>,
  <<<<"U+1041B">>, <<"U+10443">>, <<"U+1041B">>>>,
  <<<<"U+1041C">>, <<"U+10444">>, <<"U+1041C">>>>,
  <<<<"U+1041D">>, <<"U+10445">>, <<"U+1041D">>>>,
  <<<<"U+1041E">>, <<"U+10446">>, <<"U+1041E">>>>,
  <<<<"U+1041F">>, <<"U+10447">>, <<"U+1041F">>>>,
  <<<<"U+10420">>, <<"U+10448">>, <<"U+10420">>>>,
  <<<<"U+10421">>, <<"U+10449">>, <<"U+10421">>>>,
  <<<<"U+10422">>, <<"U+1044A">>, <<"U+10422">>>>,
  <<<<"U+10423">>, <<"U+1044B">>, <<"U+10423">>>>,
  <<<<"U+10424">>, <<"U+1044C">>, <<"U+10424">>>>,
  <<<<"U+10425">>, <<"U+1044D">>, <<"U+10425">>>>,
  <<<<"U+10426">>, <<"U+1044E">>, <<"U+10426">>>>,
  <<<<"U+10427">>, <<"U+1044F">>, <<"U+10427">>>>,
  <<<<"U+10400">>, <<"U+10428">>, <<"U+10400">>>>,
  <<<<"U+10401">>, <<"U+10429">>, <<"U+10401">>>>,
  <<<<"U+10402">>, <<"U+1042A">>, <<"U+10402">>>>,
  <<<<"U+10403">>, <<"U+1042B">>, <<"U+10403">>>>,
  <<<<"U+10404">>, <<"U+1042C">>, <<"U+10404">>>>,
  <<<<"U+10405">>, <<"U+1042D">>, <<"U+10405">>>>,
  <<<<"U+10406">>, <<"U+1042E">>, <<"U+10406">>>>,
  <<<<"U+10407">>, <<"U+1042F">>, <<"U+10407">>>>,
  <<<<"U+10408">>, <<"U+10430">>, <<"U+10408">>>>,
  <<<<"U+10409">>, <<"U+10431">>, <<"U+10409">>>>,
  <<<<"U+1040A">>, <<"U+10432">>, <<"U+1040A">>>>,
  <<<<"U+1040B">>, <<"U+10433">>, <<"U+1040B">>>>,
  <<<<"U+1040C">>, <<"U+10434">>, <<"U+1040C">>>>,
  <<<<"U+1040D">>, <<"U+10435">>, <<"U+1040D">>>>,
  <<<<"U+1040E">>, <<"U+10436">>, <<"U+1040E">>>>,
  <<<<"U+1040F">>, <<"U+10437">>, <<"U+1040F">>>>,
  <<<<"U+10410">>, <<"U+10438">>, <<"U+10410">>>>,
  <<<<"U+10411">>, <<"U+10439">>, <<"U+10411">>>>,
  <<<<"U+10412">>, <<"U+1043A">>, <<"U+10412">>>>,
  <<<<"U+10413">>, <<"U+1043B">>, <<"U+10413">>>>,
  <<<<"U+10414">>, <<"U+1043C">>, <<"U+10414">>>>,
  <<<<"U+10415">>, <<"U+1043D">>, <<"U+10415">>>>,
  <<<<"U+10416">>, <<"U+1043E">>, <<"U+10416">>>>,
  <<<<"U+10417">>, <<"U+1043F">>, <<"U+10417">>>>,
  <<<<"U+10418">>, <<"U+10440">>, <<"U+10418">>>>,
  <<<<"U+10419">>, <<"U+10441">>, <<"U+10419">>>>,
  <<<<"U+1041A">>, <<"U+10442">>, <<"U+1041A">>>>,
  <<<<"U+1041B">>, <<"U+10443">>, <<"U+1041B">>>>,
  <<<<"U+1041C">>, <<"U+10444">>, <<"U+1041C">>>>,
  <<<<"U+1041D">>, <<"U+10445">>, <<"U+1041D">>>>,
  <<<<"U+1041E">>, <<"U+10446">>, <<"U+1041E">>>>,
  <<<<"U+1041F">>, <<"U+10447">>, <<"U+1041F">>>>,
  <<<<"U+10420">>, <<"U+10448">>, <<"U+10420">>>>,
  <<<<"U+10421">>, <<"U+10449">>, <<"U+10421">>>>,
  <<<<"U+10422">>, <<"U+1044A">>, <<"U+10422">>>>,
  <<<<"U+10423">>, <<"U+1044B">>, <<"U+10423">>>>,
  <<<<"U+10424">>, <<"U+1044C">>, <<"U+10424">>>>,
  <<<<"U+10425">>, <<"U+1044D">>, <<"U+10425">>>>,
  <<<<"U+10426">>, <<"U+1044E">>, <<"U+10426">>>>,
  <<<<"U+10427">>, <<"U+1044F">>, <<"U+10427">>>>,
  <<<<"U+104B0">>, <<"U+104D8">>, <<"U+104B0">>>>,
  <<<<"U+104B1">>, <<"U+104D9">>, <<"U+104B1">>>>,
  <<<<"U+104B2">>, <<"U+104DA">>, <<"U+104B2">>>>,
  <<<<"U+104B3">>, <<"U+104DB">>, <<"U+104B3">>>>,
  <<<<"U+104B4">>, <<"U+104DC">>, <<"U+104B4">>>>,
  <<<<"U+104B5">>, <<"U+104DD">>, <<"U+104B5">>>>,
  <<<<"U+104B6">>, <<"U+104DE">>, <<"U+104B6">>>>,
  <<<<"U+104B7">>, <<"U+104DF">>, <<"U+104B7">>>>,
  <<<<"U+104B8">>, <<"U+104E0">>, <<"U+104B8">>>>,
  <<<<"U+104B9">>, <<"U+104E1">>, <<"U+104B9">>>>,
  <<<<"U+104BA">>, <<"U+104E2">>, <<"U+104BA">>>>,
  <<<<"U+104BB">>, <<"U+104E3">>, <<"U+104BB">>>>,
  <<<<"U+104BC">>, <<"U+104E4">>, <<"U+104BC">>>>,
  <<<<"U+104BD">>, <<"U+104E5">>, <<"U+104BD">>>>,
  <<<<"U+104BE">>, <<"U+104E6">>, <<"U+104BE">>>>,
  <<<<"U+104BF">>, <<"U+104E7">>, <<"U+104BF">>>>,
  <<<<"U+104C0">>, <<"U+104E8">>, <<"U+104C0">>>>,
  <<<<"U+104C1">>, <<"U+104E9">>, <<"U+104C1">>>>,
  <<<<"U+104C2">>, <<"U+104EA">>, <<"U+104C2">>>>,
  <<<<"U+104C3">>, <<"U+104EB">>, <<"U+104C3">>>>,
  <<<<"U+104C4">>, <<"U+104EC">>, <<"U+104C4">>>>,
  <<<<"U+104C5">>, <<"U+104ED">>, <<"U+104C5">>>>,
  <<<<"U+104C6">>, <<"U+104EE">>, <<"U+104C6">>>>,
  <<<<"U+104C7">>, <<"U+104EF">>, <<"U+104C7">>>>,
  <<<<"U+104C8">>, <<"U+104F0">>, <<"U+104C8">>>>,
  <<<<"U+104C9">>, <<"U+104F1">>, <<"U+104C9">>>>,
  <<<<"U+104CA">>, <<"U+104F2">>, <<"U+104CA">>>>,
  <<<<"U+104CB">>, <<"U+104F3">>, <<"U+104CB">>>>,
  <<<<"U+104CC">>, <<"U+104F4">>, <<"U+104CC">>>>,
  <<<<"U+104CD">>, <<"U+104F5">>, <<"U+104CD">>>>,
  <<<<"U+104CE">>, <<"U+104F6">>, <<"U+104CE">>>>,
  <<<<"U+104CF">>, <<"U+104F7">>, <<"U+104CF">>>>,
  <<<<"U+104D0">>, <<"U+104F8">>, <<"U+104D0">>>>,
  <<<<"U+104D1">>, <<"U+104F9">>, <<"U+104D1">>>>,
  <<<<"U+104D2">>, <<"U+104FA">>, <<"U+104D2">>>>,
  <<<<"U+104D3">>, <<"U+104FB">>, <<"U+104D3">>>>,
  <<<<"U+104B0">>, <<"U+104D8">>, <<"U+104B0">>>>,
  <<<<"U+104B1">>, <<"U+104D9">>, <<"U+104B1">>>>,
  <<<<"U+104B2">>, <<"U+104DA">>, <<"U+104B2">>>>,
  <<<<"U+104B3">>, <<"U+104DB">>, <<"U+104B3">>>>,
  <<<<"U+104B4">>, <<"U+104DC">>, <<"U+104B4">>>>,
  <<<<"U+104B5">>, <<"U+104DD">>, <<"U+104B5">>>>,
  <<<<"U+104B6">>, <<"U+104DE">>, <<"U+104B6">>>>,
  <<<<"U+104B7">>, <<"U+104DF">>, <<"U+104B7">>>>,
  <<<<"U+104B8">>, <<"U+104E0">>, <<"U+104B8">>>>,
  <<<<"U+104B9">>, <<"U+104E1">>, <<"U+104B9">>>>,
  <<<<"U+104BA">>, <<"U+104E2">>, <<"U+104BA">>>>,
  <<<<"U+104BB">>, <<"U+104E3">>, <<"U+104BB">>>>,
  <<<<"U+104BC">>, <<"U+104E4">>, <<"U+104BC">>>>,
  <<<<"U+104BD">>, <<"U+104E5">>, <<"U+104BD">>>>,
  <<<<"U+104BE">>, <<"U+104E6">>, <<"U+104BE">>>>,
  <<<<"U+104BF">>, <<"U+104E7">>, <<"U+104BF">>>>,
  <<<<"U+104C0">>, <<"U+104E8">>, <<"U+104C0">>>>,
  <<<<"U+104C1">>, <<"U+104E9">>, <<"U+104C1">>>>,
  <<<<"U+104C2">>, <<"U+104EA">>, <<"U+104C2">>>>,
  <<<<"U+104C3">>, <<"U+104EB">>, <<"U+104C3">>>>,
  <<<<"U+104C4">>, <<"U+104EC">>, <<"U+104C4">>>>,
  <<<<"U+104C5">>, <<"U+104ED">>, <<"U+104C5">>>>,
  <<<<"U+104C6">>, <<"U+104EE">>, <<"U+104C6">>>>,
  <<<<"U+104C7">>, <<"U+104EF">>, <<"U+104C7">>>>,
  <<<<"U+104C8">>, <<"U+104F0">>, <<"U+104C8">>>>,
  <<<<"U+104C9">>, <<"U+104F1">>, <<"U+104C9">>>>,
  <<<<"U+104CA">>, <<"U+104F2">>, <<"U+104CA">>>>,
  <<<<"U+104CB">>, <<"U+104F3">>, <<"U+104CB">>>>,
  <<<<"U+104CC">>, <<"U+104F4">>, <<"U+104CC">>>>,
  <<<<"U+104CD">>, <<"U+104F5">>, <<"U+104CD">>>>,
  <<<<"U+104CE">>, <<"U+104F6">>, <<"U+104CE">>>>,
  <<<<"U+104CF">>, <<"U+104F7">>, <<"U+104CF">>>>,
  <<<<"U+104D0">>, <<"U+104F8">>, <<"U+104D0">>>>,
  <<<<"U+104D1">>, <<"U+104F9">>, <<"U+104D1">>>>,
  <<<<"U+104D2">>, <<"U+104FA">>, <<"U+104D2">>>>,
  <<<<"U+104D3">>, <<"U+104FB">>, <<"U+104D3">>>>,
  <<<<"U+10570">>, <<"U+10597">>, <<"U+10570">>>>,
  <<<<"U+10571">>, <<"U+10598">>, <<"U+10571">>>>,
  <<<<"U+10572">>, <<"U+10599">>, <<"U+10572">>>>,
  <<<<"U+10573">>, <<"U+1059A">>, <<"U+10573">>>>,
  <<<<"U+10574">>, <<"U+1059B">>, <<"U+10574">>>>,
  <<<<"U+10575">>, <<"U+1059C">>, <<"U+10575">>>>,
  <<<<"U+10576">>, <<"U+1059D">>, <<"U+10576">>>>,
  <<<<"U+10577">>, <<"U+1059E">>, <<"U+10577">>>>,
  <<<<"U+10578">>, <<"U+1059F">>, <<"U+10578">>>>,
  <<<<"U+10579">>, <<"U+105A0">>, <<"U+10579">>>>,
  <<<<"U+1057A">>, <<"U+105A1">>, <<"U+1057A">>>>,
  <<<<"U+1057C">>, <<"U+105A3">>, <<"U+1057C">>>>,
  <<<<"U+1057D">>, <<"U+105A4">>, <<"U+1057D">>>>,
  <<<<"U+1057E">>, <<"U+105A5">>, <<"U+1057E">>>>,
  <<<<"U+1057F">>, <<"U+105A6">>, <<"U+1057F">>>>,
  <<<<"U+10580">>, <<"U+105A7">>, <<"U+10580">>>>,
  <<<<"U+10581">>, <<"U+105A8">>, <<"U+10581">>>>,
  <<<<"U+10582">>, <<"U+105A9">>, <<"U+10582">>>>,
  <<<<"U+10583">>, <<"U+105AA">>, <<"U+10583">>>>,
  <<<<"U+10584">>, <<"U+105AB">>, <<"U+10584">>>>,
  <<<<"U+10585">>, <<"U+105AC">>, <<"U+10585">>>>,
  <<<<"U+10586">>, <<"U+105AD">>, <<"U+10586">>>>,
  <<<<"U+10587">>, <<"U+105AE">>, <<"U+10587">>>>,
  <<<<"U+10588">>, <<"U+105AF">>, <<"U+10588">>>>,
  <<<<"U+10589">>, <<"U+105B0">>, <<"U+10589">>>>,
  <<<<"U+1058A">>, <<"U+105B1">>, <<"U+1058A">>>>,
  <<<<"U+1058C">>, <<"U+105B3">>, <<"U+1058C">>>>,
  <<<<"U+1058D">>, <<"U+105B4">>, <<"U+1058D">>>>,
  <<<<"U+1058E">>, <<"U+105B5">>, <<"U+1058E">>>>,
  <<<<"U+1058F">>, <<"U+105B6">>, <<"U+1058F">>>>,
  <<<<"U+10590">>, <<"U+105B7">>, <<"U+10590">>>>,
  <<<<"U+10591">>, <<"U+105B8">>, <<"U+10591">>>>,
  <<<<"U+10592">>, <<"U+105B9">>, <<"U+10592">>>>,
  <<<<"U+10594">>, <<"U+105BB">>, <<"U+10594">>>>,
  <<<<"U+10595">>, <<"U+105BC">>, <<"U+10595">>>>,
  <<<<"U+10570">>, <<"U+10597">>, <<"U+10570">>>>,
  <<<<"U+10571">>, <<"U+10598">>, <<"U+10571">>>>,
  <<<<"U+10572">>, <<"U+10599">>, <<"U+10572">>>>,
  <<<<"U+10573">>, <<"U+1059A">>, <<"U+10573">>>>,
  <<<<"U+10574">>, <<"U+1059B">>, <<"U+10574">>>>,
  <<<<"U+10575">>, <<"U+1059C">>, <<"U+10575">>>>,
  <<<<"U+10576">>, <<"U+1059D">>, <<"U+10576">>>>,
  <<<<"U+10577">>, <<"U+1059E">>, <<"U+10577">>>>,
  <<<<"U+10578">>, <<"U+1059F">>, <<"U+10578">>>>,
  <<<<"U+10579">>, <<"U+105A0">>, <<"U+10579">>>>,
  <<<<"U+1057A">>, <<"U+105A1">>, <<"U+1057A">>>>,
  <<<<"U+1057C">>, <<"U+105A3">>, <<"U+1057C">>>>,
  <<<<"U+1057D">>, <<"U+105A4">>, <<"U+1057D">>>>,
  <<<<"U+1057E">>, <<"U+105A5">>, <<"U+1057E">>>>,
  <<<<"U+1057F">>, <<"U+105A6">>, <<"U+1057F">>>>,
  <<<<"U+10580">>, <<"U+105A7">>, <<"U+10580">>>>,
  <<<<"U+10581">>, <<"U+105A8">>, <<"U+10581">>>>,
  <<<<"U+10582">>, <<"U+105A9">>, <<"U+10582">>>>,
  <<<<"U+10583">>, <<"U+105AA">>, <<"U+10583">>>>,
  <<<<"U+10584">>, <<"U+105AB">>, <<"U+10584">>>>,
  <<<<"U+10585">>, <<"U+105AC">>, <<"U+10585">>>>,
  <<<<"U+10586">>, <<"U+105AD">>, <<"U+10586">>>>,
  <<<<"U+10587">>, <<"U+105AE">>, <<"U+10587">>>>,
  <<<<"U+10588">>, <<"U+105AF">>, <<"U+10588">>>>,
  <<<<"U+10589">>, <<"U+105B0">>, <<"U+10589">>>>,
  <<<<"U+1058A">>, <<"U+105B1">>, <<"U+1058A">>>>,
  <<<<"U+1058C">>, <<"U+105B3">>, <<"U+1058C">>>>,
  <<<<"U+1058D">>, <<"U+105B4">>, <<"U+1058D">>>>,
  <<<<"U+1058E">>, <<"U+105B5">>, <<"U+1058E">>>>,
  <<<<"U+1058F">>, <<"U+105B6">>, <<"U+1058F">>>>,
  <<<<"U+10590">>, <<"U+105B7">>, <<"U+10590">>>>,
  <<<<"U+10591">>, <<"U+105B8">>, <<"U+10591">>>>,
  <<<<"U+10592">>, <<"U+105B9">>, <<"U+10592">>>>,
  <<<<"U+10594">>, <<"U+105BB">>, <<"U+10594">>>>,
  <<<<"U+10595">>, <<"U+105BC">>, <<"U+10595">>>>,
  <<<<"U+10C80">>, <<"U+10CC0">>, <<"U+10C80">>>>,
  <<<<"U+10C81">>, <<"U+10CC1">>, <<"U+10C81">>>>,
  <<<<"U+10C82">>, <<"U+10CC2">>, <<"U+10C82">>>>,
  <<<<"U+10C83">>, <<"U+10CC3">>, <<"U+10C83">>>>,
  <<<<"U+10C84">>, <<"U+10CC4">>, <<"U+10C84">>>>,
  <<<<"U+10C85">>, <<"U+10CC5">>, <<"U+10C85">>>>,
  <<<<"U+10C86">>, <<"U+10CC6">>, <<"U+10C86">>>>,
  <<<<"U+10C87">>, <<"U+10CC7">>, <<"U+10C87">>>>,
  <<<<"U+10C88">>, <<"U+10CC8">>, <<"U+10C88">>>>,
  <<<<"U+10C89">>, <<"U+10CC9">>, <<"U+10C89">>>>,
  <<<<"U+10C8A">>, <<"U+10CCA">>, <<"U+10C8A">>>>,
  <<<<"U+10C8B">>, <<"U+10CCB">>, <<"U+10C8B">>>>,
  <<<<"U+10C8C">>, <<"U+10CCC">>, <<"U+10C8C">>>>,
  <<<<"U+10C8D">>, <<"U+10CCD">>, <<"U+10C8D">>>>,
  <<<<"U+10C8E">>, <<"U+10CCE">>, <<"U+10C8E">>>>,
  <<<<"U+10C8F">>, <<"U+10CCF">>, <<"U+10C8F">>>>,
  <<<<"U+10C90">>, <<"U+10CD0">>, <<"U+10C90">>>>,
  <<<<"U+10C91">>, <<"U+10CD1">>, <<"U+10C91">>>>,
  <<<<"U+10C92">>, <<"U+10CD2">>, <<"U+10C92">>>>,
  <<<<"U+10C93">>, <<"U+10CD3">>, <<"U+10C93">>>>,
  <<<<"U+10C94">>, <<"U+10CD4">>, <<"U+10C94">>>>,
  <<<<"U+10C95">>, <<"U+10CD5">>, <<"U+10C95">>>>,
  <<<<"U+10C96">>, <<"U+10CD6">>, <<"U+10C96">>>>,
  <<<<"U+10C97">>, <<"U+10CD7">>, <<"U+10C97">>>>,
  <<<<"U+10C98">>, <<"U+10CD8">>, <<"U+10C98">>>>,
  <<<<"U+10C99">>, <<"U+10CD9">>, <<"U+10C99">>>>,
  <<<<"U+10C9A">>, <<"U+10CDA">>, <<"U+10C9A">>>>,
  <<<<"U+10C9B">>, <<"U+10CDB">>, <<"U+10C9B">>>>,
  <<<<"U+10C9C">>, <<"U+10CDC">>, <<"U+10C9C">>>>,
  <<<<"U+10C9D">>, <<"U+10CDD">>, <<"U+10C9D">>>>,
  <<<<"U+10C9E">>, <<"U+10CDE">>, <<"U+10C9E">>>>,
  <<<<"U+10C9F">>, <<"U+10CDF">>, <<"U+10C9F">>>>,
  <<<<"U+10CA0">>, <<"U+10CE0">>, <<"U+10CA0">>>>,
  <<<<"U+10CA1">>, <<"U+10CE1">>, <<"U+10CA1">>>>,
  <<<<"U+10CA2">>, <<"U+10CE2">>, <<"U+10CA2">>>>,
  <<<<"U+10CA3">>, <<"U+10CE3">>, <<"U+10CA3">>>>,
  <<<<"U+10CA4">>, <<"U+10CE4">>, <<"U+10CA4">>>>,
  <<<<"U+10CA5">>, <<"U+10CE5">>, <<"U+10CA5">>>>,
  <<<<"U+10CA6">>, <<"U+10CE6">>, <<"U+10CA6">>>>,
  <<<<"U+10CA7">>, <<"U+10CE7">>, <<"U+10CA7">>>>,
  <<<<"U+10CA8">>, <<"U+10CE8">>, <<"U+10CA8">>>>,
  <<<<"U+10CA9">>, <<"U+10CE9">>, <<"U+10CA9">>>>,
  <<<<"U+10CAA">>, <<"U+10CEA">>, <<"U+10CAA">>>>,
  <<<<"U+10CAB">>, <<"U+10CEB">>, <<"U+10CAB">>>>,
  <<<<"U+10CAC">>, <<"U+10CEC">>, <<"U+10CAC">>>>,
  <<<<"U+10CAD">>, <<"U+10CED">>, <<"U+10CAD">>>>,
  <<<<"U+10CAE">>, <<"U+10CEE">>, <<"U+10CAE">>>>,
  <<<<"U+10CAF">>, <<"U+10CEF">>, <<"U+10CAF">>>>,
  <<<<"U+10CB0">>, <<"U+10CF0">>, <<"U+10CB0">>>>,
  <<<<"U+10CB1">>, <<"U+10CF1">>, <<"U+10CB1">>>>,
  <<<<"U+10CB2">>, <<"U+10CF2">>, <<"U+10CB2">>>>,
  <<<<"U+10C80">>, <<"U+10CC0">>, <<"U+10C80">>>>,
  <<<<"U+10C81">>, <<"U+10CC1">>, <<"U+10C81">>>>,
  <<<<"U+10C82">>, <<"U+10CC2">>, <<"U+10C82">>>>,
  <<<<"U+10C83">>, <<"U+10CC3">>, <<"U+10C83">>>>,
  <<<<"U+10C84">>, <<"U+10CC4">>, <<"U+10C84">>>>,
  <<<<"U+10C85">>, <<"U+10CC5">>, <<"U+10C85">>>>,
  <<<<"U+10C86">>, <<"U+10CC6">>, <<"U+10C86">>>>,
  <<<<"U+10C87">>, <<"U+10CC7">>, <<"U+10C87">>>>,
  <<<<"U+10C88">>, <<"U+10CC8">>, <<"U+10C88">>>>,
  <<<<"U+10C89">>, <<"U+10CC9">>, <<"U+10C89">>>>,
  <<<<"U+10C8A">>, <<"U+10CCA">>, <<"U+10C8A">>>>,
  <<<<"U+10C8B">>, <<"U+10CCB">>, <<"U+10C8B">>>>,
  <<<<"U+10C8C">>, <<"U+10CCC">>, <<"U+10C8C">>>>,
  <<<<"U+10C8D">>, <<"U+10CCD">>, <<"U+10C8D">>>>,
  <<<<"U+10C8E">>, <<"U+10CCE">>, <<"U+10C8E">>>>,
  <<<<"U+10C8F">>, <<"U+10CCF">>, <<"U+10C8F">>>>,
  <<<<"U+10C90">>, <<"U+10CD0">>, <<"U+10C90">>>>,
  <<<<"U+10C91">>, <<"U+10CD1">>, <<"U+10C91">>>>,
  <<<<"U+10C92">>, <<"U+10CD2">>, <<"U+10C92">>>>,
  <<<<"U+10C93">>, <<"U+10CD3">>, <<"U+10C93">>>>,
  <<<<"U+10C94">>, <<"U+10CD4">>, <<"U+10C94">>>>,
  <<<<"U+10C95">>, <<"U+10CD5">>, <<"U+10C95">>>>,
  <<<<"U+10C96">>, <<"U+10CD6">>, <<"U+10C96">>>>,
  <<<<"U+10C97">>, <<"U+10CD7">>, <<"U+10C97">>>>,
  <<<<"U+10C98">>, <<"U+10CD8">>, <<"U+10C98">>>>,
  <<<<"U+10C99">>, <<"U+10CD9">>, <<"U+10C99">>>>,
  <<<<"U+10C9A">>, <<"U+10CDA">>, <<"U+10C9A">>>>,
  <<<<"U+10C9B">>, <<"U+10CDB">>, <<"U+10C9B">>>>,
  <<<<"U+10C9C">>, <<"U+10CDC">>, <<"U+10C9C">>>>,
  <<<<"U+10C9D">>, <<"U+10CDD">>, <<"U+10C9D">>>>,
  <<<<"U+10C9E">>, <<"U+10CDE">>, <<"U+10C9E">>>>,
  <<<<"U+10C9F">>, <<"U+10CDF">>, <<"U+10C9F">>>>,
  <<<<"U+10CA0">>, <<"U+10CE0">>, <<"U+10CA0">>>>,
  <<<<"U+10CA1">>, <<"U+10CE1">>, <<"U+10CA1">>>>,
  <<<<"U+10CA2">>, <<"U+10CE2">>, <<"U+10CA2">>>>,
  <<<<"U+10CA3">>, <<"U+10CE3">>, <<"U+10CA3">>>>,
  <<<<"U+10CA4">>, <<"U+10CE4">>, <<"U+10CA4">>>>,
  <<<<"U+10CA5">>, <<"U+10CE5">>, <<"U+10CA5">>>>,
  <<<<"U+10CA6">>, <<"U+10CE6">>, <<"U+10CA6">>>>,
  <<<<"U+10CA7">>, <<"U+10CE7">>, <<"U+10CA7">>>>,
  <<<<"U+10CA8">>, <<"U+10CE8">>, <<"U+10CA8">>>>,
  <<<<"U+10CA9">>, <<"U+10CE9">>, <<"U+10CA9">>>>,
  <<<<"U+10CAA">>, <<"U+10CEA">>, <<"U+10CAA">>>>,
  <<<<"U+10CAB">>, <<"U+10CEB">>, <<"U+10CAB">>>>,
  <<<<"U+10CAC">>, <<"U+10CEC">>, <<"U+10CAC">>>>,
  <<<<"U+10CAD">>, <<"U+10CED">>, <<"U+10CAD">>>>,
  <<<<"U+10CAE">>, <<"U+10CEE">>, <<"U+10CAE">>>>,
  <<<<"U+10CAF">>, <<"U+10CEF">>, <<"U+10CAF">>>>,
  <<<<"U+10CB0">>, <<"U+10CF0">>, <<"U+10CB0">>>>,
  <<<<"U+10CB1">>, <<"U+10CF1">>, <<"U+10CB1">>>>,
  <<<<"U+10CB2">>, <<"U+10CF2">>, <<"U+10CB2">>>>,
  <<<<"U+118A0">>, <<"U+118C0">>, <<"U+118A0">>>>,
  <<<<"U+118A1">>, <<"U+118C1">>, <<"U+118A1">>>>,
  <<<<"U+118A2">>, <<"U+118C2">>, <<"U+118A2">>>>,
  <<<<"U+118A3">>, <<"U+118C3">>, <<"U+118A3">>>>,
  <<<<"U+118A4">>, <<"U+118C4">>, <<"U+118A4">>>>,
  <<<<"U+118A5">>, <<"U+118C5">>, <<"U+118A5">>>>,
  <<<<"U+118A6">>, <<"U+118C6">>, <<"U+118A6">>>>,
  <<<<"U+118A7">>, <<"U+118C7">>, <<"U+118A7">>>>,
  <<<<"U+118A8">>, <<"U+118C8">>, <<"U+118A8">>>>,
  <<<<"U+118A9">>, <<"U+118C9">>, <<"U+118A9">>>>,
  <<<<"U+118AA">>, <<"U+118CA">>, <<"U+118AA">>>>,
  <<<<"U+118AB">>, <<"U+118CB">>, <<"U+118AB">>>>,
  <<<<"U+118AC">>, <<"U+118CC">>, <<"U+118AC">>>>,
  <<<<"U+118AD">>, <<"U+118CD">>, <<"U+118AD">>>>,
  <<<<"U+118AE">>, <<"U+118CE">>, <<"U+118AE">>>>,
  <<<<"U+118AF">>, <<"U+118CF">>, <<"U+118AF">>>>,
  <<<<"U+118B0">>, <<"U+118D0">>, <<"U+118B0">>>>,
  <<<<"U+118B1">>, <<"U+118D1">>, <<"U+118B1">>>>,
  <<<<"U+118B2">>, <<"U+118D2">>, <<"U+118B2">>>>,
  <<<<"U+118B3">>, <<"U+118D3">>, <<"U+118B3">>>>,
  <<<<"U+118B4">>, <<"U+118D4">>, <<"U+118B4">>>>,
  <<<<"U+118B5">>, <<"U+118D5">>, <<"U+118B5">>>>,
  <<<<"U+118B6">>, <<"U+118D6">>, <<"U+118B6">>>>,
  <<<<"U+118B7">>, <<"U+118D7">>, <<"U+118B7">>>>,
  <<<<"U+118B8">>, <<"U+118D8">>, <<"U+118B8">>>>,
  <<<<"U+118B9">>, <<"U+118D9">>, <<"U+118B9">>>>,
  <<<<"U+118BA">>, <<"U+118DA">>, <<"U+118BA">>>>,
  <<<<"U+118BB">>, <<"U+118DB">>, <<"U+118BB">>>>,
  <<<<"U+118BC">>, <<"U+118DC">>, <<"U+118BC">>>>,
  <<<<"U+118BD">>, <<"U+118DD">>, <<"U+118BD">>>>,
  <<<<"U+118BE">>, <<"U+118DE">>, <<"U+118BE">>>>,
  <<<<"U+118BF">>, <<"U+118DF">>, <<"U+118BF">>>>,
  <<<<"U+118A0">>, <<"U+118C0">>, <<"U+118A0">>>>,
  <<<<"U+118A1">>, <<"U+118C1">>, <<"U+118A1">>>>,
  <<<<"U+118A2">>, <<"U+118C2">>, <<"U+118A2">>>>,
  <<<<"U+118A3">>, <<"U+118C3">>, <<"U+118A3">>>>,
  <<<<"U+118A4">>, <<"U+118C4">>, <<"U+118A4">>>>,
  <<<<"U+118A5">>, <<"U+118C5">>, <<"U+118A5">>>>,
  <<<<"U+118A6">>, <<"U+118C6">>, <<"U+118A6">>>>,
  <<<<"U+118A7">>, <<"U+118C7">>, <<"U+118A7">>>>,
  <<<<"U+118A8">>, <<"U+118C8">>, <<"U+118A8">>>>,
  <<<<"U+118A9">>, <<"U+118C9">>, <<"U+118A9">>>>,
  <<<<"U+118AA">>, <<"U+118CA">>, <<"U+118AA">>>>,
  <<<<"U+118AB">>, <<"U+118CB">>, <<"U+118AB">>>>,
  <<<<"U+118AC">>, <<"U+118CC">>, <<"U+118AC">>>>,
  <<<<"U+118AD">>, <<"U+118CD">>, <<"U+118AD">>>>,
  <<<<"U+118AE">>, <<"U+118CE">>, <<"U+118AE">>>>,
  <<<<"U+118AF">>, <<"U+118CF">>, <<"U+118AF">>>>,
  <<<<"U+118B0">>, <<"U+118D0">>, <<"U+118B0">>>>,
  <<<<"U+118B1">>, <<"U+118D1">>, <<"U+118B1">>>>,
  <<<<"U+118B2">>, <<"U+118D2">>, <<"U+118B2">>>>,
  <<<<"U+118B3">>, <<"U+118D3">>, <<"U+118B3">>>>,
  <<<<"U+118B4">>, <<"U+118D4">>, <<"U+118B4">>>>,
  <<<<"U+118B5">>, <<"U+118D5">>, <<"U+118B5">>>>,
  <<<<"U+118B6">>, <<"U+118D6">>, <<"U+118B6">>>>,
  <<<<"U+118B7">>, <<"U+118D7">>, <<"U+118B7">>>>,
  <<<<"U+118B8">>, <<"U+118D8">>, <<"U+118B8">>>>,
  <<<<"U+118B9">>, <<"U+118D9">>, <<"U+118B9">>>>,
  <<<<"U+118BA">>, <<"U+118DA">>, <<"U+118BA">>>>,
  <<<<"U+118BB">>, <<"U+118DB">>, <<"U+118BB">>>>,
  <<<<"U+118BC">>, <<"U+118DC">>, <<"U+118BC">>>>,
  <<<<"U+118BD">>, <<"U+118DD">>, <<"U+118BD">>>>,
  <<<<"U+118BE">>, <<"U+118DE">>, <<"U+118BE">>>>,
  <<<<"U+118BF">>, <<"U+118DF">>, <<"U+118BF">>>>,
  <<<<"U+16E40">>, <<"U+16E60">>, <<"U+16E40">>>>,
  <<<<"U+16E41">>, <<"U+16E61">>, <<"U+16E41">>>>,
  <<<<"U+16E42">>, <<"U+16E62">>, <<"U+16E42">>>>,
  <<<<"U+16E43">>, <<"U+16E63">>, <<"U+16E43">>>>,
  <<<<"U+16E44">>, <<"U+16E64">>, <<"U+16E44">>>>,
  <<<<"U+16E45">>, <<"U+16E65">>, <<"U+16E45">>>>,
  <<<<"U+16E46">>, <<"U+16E66">>, <<"U+16E46">>>>,
  <<<<"U+16E47">>, <<"U+16E67">>, <<"U+16E47">>>>,
  <<<<"U+16E48">>, <<"U+16E68">>, <<"U+16E48">>>>,
  <<<<"U+16E49">>, <<"U+16E69">>, <<"U+16E49">>>>,
  <<<<"U+16E4A">>, <<"U+16E6A">>, <<"U+16E4A">>>>,
  <<<<"U+16E4B">>, <<"U+16E6B">>, <<"U+16E4B">>>>,
  <<<<"U+16E4C">>, <<"U+16E6C">>, <<"U+16E4C">>>>,
  <<<<"U+16E4D">>, <<"U+16E6D">>, <<"U+16E4D">>>>,
  <<<<"U+16E4E">>, <<"U+16E6E">>, <<"U+16E4E">>>>,
  <<<<"U+16E4F">>, <<"U+16E6F">>, <<"U+16E4F">>>>,
  <<<<"U+16E50">>, <<"U+16E70">>, <<"U+16E50">>>>,
  <<<<"U+16E51">>, <<"U+16E71">>, <<"U+16E51">>>>,
  <<<<"U+16E52">>, <<"U+16E72">>, <<"U+16E52">>>>,
  <<<<"U+16E53">>, <<"U+16E73">>, <<"U+16E53">>>>,
  <<<<"U+16E54">>, <<"U+16E74">>, <<"U+16E54">>>>,
  <<<<"U+16E55">>, <<"U+16E75">>, <<"U+16E55">>>>,
  <<<<"U+16E56">>, <<"U+16E76">>, <<"U+16E56">>>>,
  <<<<"U+16E57">>, <<"U+16E77">>, <<"U+16E57">>>>,
  <<<<"U+16E58">>, <<"U+16E78">>, <<"U+16E58">>>>,
  <<<<"U+16E59">>, <<"U+16E79">>, <<"U+16E59">>>>,
  <<<<"U+16E5A">>, <<"U+16E7A">>, <<"U+16E5A">>>>,
  <<<<"U+16E5B">>, <<"U+16E7B">>, <<"U+16E5B">>>>,
  <<<<"U+16E5C">>, <<"U+16E7C">>, <<"U+16E5C">>>>,
  <<<<"U+16E5D">>, <<"U+16E7D">>, <<"U+16E5D">>>>,
  <<<<"U+16E5E">>, <<"U+16E7E">>, <<"U+16E5E">>>>,
  <<<<"U+16E5F">>, <<"U+16E7F">>, <<"U+16E5F">>>>,
  <<<<"U+16E40">>, <<"U+16E60">>, <<"U+16E40">>>>,
  <<<<"U+16E41">>, <<"U+16E61">>, <<"U+16E41">>>>,
  <<<<"U+16E42">>, <<"U+16E62">>, <<"U+16E42">>>>,
  <<<<"U+16E43">>, <<"U+16E63">>, <<"U+16E43">>>>,
  <<<<"U+16E44">>, <<"U+16E64">>, <<"U+16E44">>>>,
  <<<<"U+16E45">>, <<"U+16E65">>, <<"U+16E45">>>>,
  <<<<"U+16E46">>, <<"U+16E66">>, <<"U+16E46">>>>,
  <<<<"U+16E47">>, <<"U+16E67">>, <<"U+16E47">>>>,
  <<<<"U+16E48">>, <<"U+16E68">>, <<"U+16E48">>>>,
  <<<<"U+16E49">>, <<"U+16E69">>, <<"U+16E49">>>>,
  <<<<"U+16E4A">>, <<"U+16E6A">>, <<"U+16E4A">>>>,
  <<<<"U+16E4B">>, <<"U+16E6B">>, <<"U+16E4B">>>>,
  <<<<"U+16E4C">>, <<"U+16E6C">>, <<"U+16E4C">>>>,
  <<<<"U+16E4D">>, <<"U+16E6D">>, <<"U+16E4D">>>>,
  <<<<"U+16E4E">>, <<"U+16E6E">>, <<"U+16E4E">>>>,
  <<<<"U+16E4F">>, <<"U+16E6F">>, <<"U+16E4F">>>>,
  <<<<"U+16E50">>, <<"U+16E70">>, <<"U+16E50">>>>,
  <<<<"U+16E51">>, <<"U+16E71">>, <<"U+16E51">>>>,
  <<<<"U+16E52">>, <<"U+16E72">>, <<"U+16E52">>>>,
  <<<<"U+16E53">>, <<"U+16E73">>, <<"U+16E53">>>>,
  <<<<"U+16E54">>, <<"U+16E74">>, <<"U+16E54">>>>,
  <<<<"U+16E55">>, <<"U+16E75">>, <<"U+16E55">>>>,
  <<<<"U+16E56">>, <<"U+16E76">>, <<"U+16E56">>>>,
  <<<<"U+16E57">>, <<"U+16E77">>, <<"U+16E57">>>>,
  <<<<"U+16E58">>, <<"U+16E78">>, <<"U+16E58">>>>,
  <<<<"U+16E59">>, <<"U+16E79">>, <<"U+16E59">>>>,
  <<<<"U+16E5A">>, <<"U+16E7A">>, <<"U+16E5A">>>>,
  <<<<"U+16E5B">>, <<"U+16E7B">>, <<"U+16E5B">>>>,
  <<<<"U+16E5C">>, <<"U+16E7C">>, <<"U+16E5C">>>>,
  <<<<"U+16E5D">>, <<"U+16E7D">>, <<"U+16E5D">>>>,
  <<<<"U+16E5E">>, <<"U+16E7E">>, <<"U+16E5E">>>>,
  <<<<"U+16E5F">>, <<"U+16E7F">>, <<"U+16E5F">>>>,
  <<<<"U+1E900">>, <<"U+1E922">>, <<"U+1E900">>>>,
  <<<<"U+1E901">>, <<"U+1E923">>, <<"U+1E901">>>>,
  <<<<"U+1E902">>, <<"U+1E924">>, <<"U+1E902">>>>,
  <<<<"U+1E903">>, <<"U+1E925">>, <<"U+1E903">>>>,
  <<<<"U+1E904">>, <<"U+1E926">>, <<"U+1E904">>>>,
  <<<<"U+1E905">>, <<"U+1E927">>, <<"U+1E905">>>>,
  <<<<"U+1E906">>, <<"U+1E928">>, <<"U+1E906">>>>,
  <<<<"U+1E907">>, <<"U+1E929">>, <<"U+1E907">>>>,
  <<<<"U+1E908">>, <<"U+1E92A">>, <<"U+1E908">>>>,
  <<<<"U+1E909">>, <<"U+1E92B">>, <<"U+1E909">>>>,
  <<<<"U+1E90A">>, <<"U+1E92C">>, <<"U+1E90A">>>>,
  <<<<"U+1E90B">>, <<"U+1E92D">>, <<"U+1E90B">>>>,
  <<<<"U+1E90C">>, <<"U+1E92E">>, <<"U+1E90C">>>>,
  <<<<"U+1E90D">>, <<"U+1E92F">>, <<"U+1E90D">>>>,
  <<<<"U+1E90E">>, <<"U+1E930">>, <<"U+1E90E">>>>,
  <<<<"U+1E90F">>, <<"U+1E931">>, <<"U+1E90F">>>>,
  <<<<"U+1E910">>, <<"U+1E932">>, <<"U+1E910">>>>,
  <<<<"U+1E911">>, <<"U+1E933">>, <<"U+1E911">>>>,
  <<<<"U+1E912">>, <<"U+1E934">>, <<"U+1E912">>>>,
  <<<<"U+1E913">>, <<"U+1E935">>, <<"U+1E913">>>>,
  <<<<"U+1E914">>, <<"U+1E936">>, <<"U+1E914">>>>,
  <<<<"U+1E915">>, <<"U+1E937">>, <<"U+1E915">>>>,
  <<<<"U+1E916">>, <<"U+1E938">>, <<"U+1E916">>>>,
  <<<<"U+1E917">>, <<"U+1E939">>, <<"U+1E917">>>>,
  <<<<"U+1E918">>, <<"U+1E93A">>, <<"U+1E918">>>>,
  <<<<"U+1E919">>, <<"U+1E93B">>, <<"U+1E919">>>>,
  <<<<"U+1E91A">>, <<"U+1E93C">>, <<"U+1E91A">>>>,
  <<<<"U+1E91B">>, <<"U+1E93D">>, <<"U+1E91B">>>>,
  <<<<"U+1E91C">>, <<"U+1E93E">>, <<"U+1E91C">>>>,
  <<<<"U+1E91D">>, <<"U+1E93F">>, <<"U+1E91D">>>>,
  <<<<"U+1E91E">>, <<"U+1E940">>, <<"U+1E91E">>>>,
  <<<<"U+1E91F">>, <<"U+1E941">>, <<"U+1E91F">>>>,
  <<<<"U+1E920">>, <<"U+1E942">>, <<"U+1E920">>>>,
  <<<<"U+1E921">>, <<"U+1E943">>, <<"U+1E921">>>>,
  <<<<"U+1E900">>, <<"U+1E922">>, <<"U+1E900">>>>,
  <<<<"U+1E901">>, <<"U+1E923">>, <<"U+1E901">>>>,
  <<<<"U+1E902">>, <<"U+1E924">>, <<"U+1E902">>>>,
  <<<<"U+1E903">>, <<"U+1E925">>, <<"U+1E903">>>>,
  <<<<"U+1E904">>, <<"U+1E926">>, <<"U+1E904">>>>,
  <<<<"U+1E905">>, <<"U+1E927">>, <<"U+1E905">>>>,
  <<<<"U+1E906">>, <<"U+1E928">>, <<"U+1E906">>>>,
  <<<<"U+1E907">>, <<"U+1E929">>, <<"U+1E907">>>>,
  <<<<"U+1E908">>, <<"U+1E92A">>, <<"U+1E908">>>>,
  <<<<"U+1E909">>, <<"U+1E92B">>, <<"U+1E909">>>>,
  <<<<"U+1E90A">>, <<"U+1E92C">>, <<"U+1E90A">>>>,
  <<<<"U+1E90B">>, <<"U+1E92D">>, <<"U+1E90B">>>>,
  <<<<"U+1E90C">>, <<"U+1E92E">>, <<"U+1E90C">>>>,
  <<<<"U+1E90D">>, <<"U+1E92F">>, <<"U+1E90D">>>>,
  <<<<"U+1E90E">>, <<"U+1E930">>, <<"U+1E90E">>>>,
  <<<<"U+1E90F">>, <<"U+1E931">>, <<"U+1E90F">>>>,
  <<<<"U+1E910">>, <<"U+1E932">>, <<"U+1E910">>>>,
  <<<<"U+1E911">>, <<"U+1E933">>, <<"U+1E911">>>>,
  <<<<"U+1E912">>, <<"U+1E934">>, <<"U+1E912">>>>,
  <<<<"U+1E913">>, <<"U+1E935">>, <<"U+1E913">>>>,
  <<<<"U+1E914">>, <<"U+1E936">>, <<"U+1E914">>>>,
  <<<<"U+1E915">>, <<"U+1E937">>, <<"U+1E915">>>>,
  <<<<"U+1E916">>, <<"U+1E938">>, <<"U+1E916">>>>,
  <<<<"U+1E917">>, <<"U+1E939">>, <<"U+1E917">>>>,
  <<<<"U+1E918">>, <<"U+1E93A">>, <<"U+1E918">>>>,
  <<<<"U+1E919">>, <<"U+1E93B">>, <<"U+1E919">>>>,
  <<<<"U+1E91A">>, <<"U+1E93C">>, <<"U+1E91A">>>>,
  <<<<"U+1E91B">>, <<"U+1E93D">>, <<"U+1E91B">>>>,
  <<<<"U+1E91C">>, <<"U+1E93E">>, <<"U+1E91C">>>>,
  <<<<"U+1E91D">>, <<"U+1E93F">>, <<"U+1E91D">>>>,
  <<<<"U+1E91E">>, <<"U+1E940">>, <<"U+1E91E">>>>,
  <<<<"U+1E91F">>, <<"U+1E941">>, <<"U+1E91F">>>>,
  <<<<"U+1E920">>, <<"U+1E942">>, <<"U+1E920">>>>,
  <<<<"U+1E921">>, <<"U+1E943">>, <<"U+1E921">>>>>>
\* str.isspace(): what str.strip() removes and the regex class \s matches
Spaces == {
  "\t", "\n", "", "\f", "\r", "", "", "", "", " ", "", " ", " ",
  "U+2000", "U+2001", "U+2002", "U+2003", "U+2004", "U+2005", "U+2006",
  "U+2007", "U+2008", "U+2009", "U+200A", "U+2028", "U+2029", "U+202F",
  "U+205F", "U+3000"}
\* \d and the digits float() reads: the decimal digits of every script, the
\* zeros first and the nines last
Digits == <<
  {"0", "U+0660", "۰", "߀", "U+0966", "০", "U+0A66", "૦", "U+0B66", "௦",
   "U+0C66", "೦", "U+0D66", "෦", "U+0E50", "໐", "U+0F20", "U+1040", "႐",
   "០", "U+1810", "U+1946", "᧐", "᪀", "᪐", "U+1B50", "᮰", "U+1C40",
   "U+1C50", "U+A620", "꣐", "U+A900", "꧐", "꧰", "U+AA50", "꯰", "U+FF10",
   "U+104A0", "U+10D30", "U+11066", "U+110F0", "U+11136", "U+111D0",
   "U+112F0", "U+11450", "U+114D0", "U+11650", "U+116C0", "U+11730",
   "U+118E0", "U+11950", "U+11C50", "U+11D50", "U+11DA0", "U+16A60",
   "U+16AC0", "U+16B50", "U+1D7CE", "U+1D7D8", "U+1D7E2", "U+1D7EC",
   "U+1D7F6", "U+1E140", "U+1E2F0", "U+1E950", "U+1FBF0"},
  {"1", "U+0661", "۱", "߁", "U+0967", "১", "U+0A67", "૧", "U+0B67", "௧",
   "U+0C67", "೧", "U+0D67", "෧", "U+0E51", "໑", "U+0F21", "U+1041", "႑",
   "១", "U+1811", "U+1947", "᧑", "᪁", "᪑", "U+1B51", "᮱", "U+1C41",
   "U+1C51", "U+A621", "꣑", "U+A901", "꧑", "꧱", "U+AA51", "꯱", "U+FF11",
   "U+104A1", "U+10D31", "U+11067", "U+110F1", "U+11137", "U+111D1",
   "U+112F1", "U+11451", "U+114D1", "U+11651", "U+116C1", "U+11731",
   "U+118E1", "U+11951", "U+11C51", "U+11D51", "U+11DA1", "U+16A61",
   "U+16AC1", "U+16B51", "U+1D7CF", "U+1D7D9", "U+1D7E3", "U+1D7ED",
   "U+1D7F7", "U+1E141", "U+1E2F1", "U+1E951", "U+1FBF1"},
  {"2", "U+0662", "۲", "߂", "U+0968", "২", "U+0A68", "૨", "U+0B68", "௨",
   "U+0C68", "೨", "U+0D68", "෨", "U+0E52", "໒", "U+0F22", "U+1042", "႒",
   "២", "U+1812", "U+1948", "᧒", "᪂", "᪒", "U+1B52", "᮲", "U+1C42",
   "U+1C52", "U+A622", "꣒", "U+A902", "꧒", "꧲", "U+AA52", "꯲", "U+FF12",
   "U+104A2", "U+10D32", "U+11068", "U+110F2", "U+11138", "U+111D2",
   "U+112F2", "U+11452", "U+114D2", "U+11652", "U+116C2", "U+11732",
   "U+118E2", "U+11952", "U+11C52", "U+11D52", "U+11DA2", "U+16A62",
   "U+16AC2", "U+16B52", "U+1D7D0", "U+1D7DA", "U+1D7E4", "U+1D7EE",
   "U+1D7F8", "U+1E142", "U+1E2F2", "U+1E952", "U+1FBF2"},
  {"3", "U+0663", "۳", "߃", "U+0969", "৩", "U+0A69", "૩", "U+0B69", "௩",
   "U+0C69", "೩", "U+0D69", "෩", "U+0E53", "໓", "U+0F23", "U+1043", "႓",
   "៣", "U+1813", "U+1949", "᧓", "᪃", "᪓", "U+1B53", "᮳", "U+1C43",
   "U+1C53", "U+A623", "꣓", "U+A903", "꧓", "꧳", "U+AA53", "꯳", "U+FF13",
   "U+104A3", "U+10D33", "U+11069", "U+110F3", "U+11139", "U+111D3",
   "U+112F3", "U+11453", "U+114D3", "U+11653", "U+116C3", "U+11733",
   "U+118E3", "U+11953", "U+11C53", "U+11D53", "U+11DA3", "U+16A63",
   "U+16AC3", "U+16B53", "U+1D7D1", "U+1D7DB", "U+1D7E5", "U+1D7EF",
   "U+1D7F9", "U+1E143", "U+1E2F3", "U+1E953", "U+1FBF3"},
  {"4", "U+0664", "۴", "߄", "U+096A", "৪", "U+0A6A", "૪", "U+0B6A", "௪",
   "U+0C6A", "೪", "U+0D6A", "෪", "U+0E54", "໔", "U+0F24", "U+1044", "႔",
   "៤", "U+1814", "U+194A", "᧔", "᪄", "᪔", "U+1B54", "᮴", "U+1C44",
   "U+1C54", "U+A624", "꣔", "U+A904", "꧔", "꧴", "U+AA54", "꯴", "U+FF14",
   "U+104A4", "U+10D34", "U+1106A", "U+110F4", "U+1113A", "U+111D4",
   "U+112F4", "U+11454", "U+114D4", "U+11654", "U+116C4", "U+11734",
   "U+118E4", "U+11954", "U+11C54", "U+11D54", "U+11DA4", "U+16A64",
   "U+16AC4", "U+16B54", "U+1D7D2", "U+1D7DC", "U+1D7E6", "U+1D7F0",
   "U+1D7FA", "U+1E144", "U+1E2F4", "U+1E954", "U+1FBF4"},
  {"5", "U+0665", "۵", "߅", "U+096B", "৫", "U+0A6B", "૫", "U+0B6B", "௫",
   "U+0C6B", "೫", "U+0D6B", "෫", "U+0E55", "໕", "U+0F25", "U+1045", "႕",
   "៥", "U+1815", "U+194B", "᧕", "᪅", "᪕", "U+1B55", "᮵", "U+1C45",
   "U+1C55", "U+A625", "꣕", "U+A905", "꧕", "꧵", "U+AA55", "꯵", "U+FF15",
   "U+104A5", "U+10D35", "U+1106B", "U+110F5", "U+1113B", "U+111D5",
   "U+112F5", "U+11455", "U+114D5", "U+11655", "U+116C5", "U+11735",
   "U+118E5", "U+11955", "U+11C55", "U+11D55", "U+11DA5", "U+16A65",
   "U+16AC5", "U+16B55", "U+1D7D3", "U+1D7DD", "U+1D7E7", "U+1D7F1",
   "U+1D7FB", "U+1E145", "U+1E2F5", "U+1E955", "U+1FBF5"},
  {"6", "U+0666", "۶", "߆", "U+096C", "৬", "U+0A6C", "૬", "U+0B6C", "௬",
   "U+0C6C", "೬", "U+0D6C", "෬", "U+0E56", "໖", "U+0F26", "U+1046", "႖",
   "៦", "U+1816", "U+194C", "᧖", "᪆", "᪖", "U+1B56", "᮶", "U+1C46",
   "U+1C56", "U+A626", "꣖", "U+A906", "꧖", "꧶", "U+AA56", "꯶", "U+FF16",
   "U+104A6", "U+10D36", "U+1106C", "U+110F6", "U+1113C", "U+111D6",
   "U+112F6", "U+11456", "U+114D6", "U+11656", "U+116C6", "U+11736",
   "U+118E6", "U+11956", "U+11C56", "U+11D56", "U+11DA6", "U+16A66",
   "U+16AC6", "U+16B56", "U+1D7D4", "U+1D7DE", "U+1D7E8", "U+1D7F2",
   "U+1D7FC", "U+1E146", "U+1E2F6", "U+1E956", "U+1FBF6"},
  {"7", "U+0667", "۷", "߇", "U+096D", "৭", "U+0A6D", "૭", "U+0B6D", "௭",
   "U+0C6D", "೭", "U+0D6D", "෭", "U+0E57", "໗", "U+0F27", "U+1047", "႗",
   "៧", "U+1817", "U+194D", "᧗", "᪇", "᪗", "U+1B57", "᮷", "U+1C47",
   "U+1C57", "U+A627", "꣗", "U+A907", "꧗", "꧷", "U+AA57", "꯷", "U+FF17",
   "U+104A7", "U+10D37", "U+1106D", "U+110F7", "U+1113D", "U+111D7",
   "U+112F7", "U+11457", "U+114D7", "U+11657", "U+116C7", "U+11737",
   "U+118E7", "U+11957", "U+11C57", "U+11D57", "U+11DA7", "U+16A67",
   "U+16AC7", "U+16B57", "U+1D7D5", "U+1D7DF", "U+1D7E9", "U+1D7F3",
   "U+1D7FD", "U+1E147", "U+1E2F7", "U+1E957", "U+1FBF7"},
  {"8", "U+0668", "۸", "߈", "U+096E", "৮", "U+0A6E", "૮", "U+0B6E", "௮",
   "U+0C6E", "೮", "U+0D6E", "෮", "U+0E58", "໘", "U+0F28", "U+1048", "႘",
   "៨", "U+1818", "U+194E", "᧘", "᪈", "᪘", "U+1B58", "᮸", "U+1C48",
   "U+1C58", "U+A628", "꣘", "U+A908", "꧘", "꧸", "U+AA58", "꯸", "U+FF18",
   "U+104A8", "U+10D38", "U+1106E", "U+110F8", "U+1113E", "U+111D8",
   "U+112F8", "U+11458", "U+114D8", "U+11658", "U+116C8", "U+11738",
   "U+118E8", "U+11958", "U+11C58", "U+11D58", "U+11DA8", "U+16A68",
   "U+16AC8", "U+16B58", "U+1D7D6", "U+1D7E0", "U+1D7EA", "U+1D7F4",
   "U+1D7FE", "U+1E148", "U+1E2F8", "U+1E958", "U+1FBF8"},
  {"9", "U+0669", "۹", "߉", "U+096F", "৯", "U+0A6F", "૯", "U+0B6F", "௯",
   "U+0C6F", "೯", "U+0D6F", "෯", "U+0E59", "໙", "U+0F29", "U+1049", "႙",
   "៩", "U+1819", "U+194F", "᧙", "᪉", "᪙", "U+1B59", "᮹", "U+1C49",
   "U+1C59", "U+A629", "꣙", "U+A909", "꧙", "꧹", "U+AA59", "꯹", "U+FF19",
   "U+104A9", "U+10D39", "U+1106F", "U+110F9", "U+1113F", "U+111D9",
   "U+112F9", "U+11459", "U+114D9", "U+11659", "U+116C9", "U+11739",
   "U+118E9", "U+11959", "U+11C59", "U+11D59", "U+11DA9", "U+16A69",
   "U+16AC9", "U+16B59", "U+1D7D7", "U+1D7E1", "U+1D7EB", "U+1D7F5",
   "U+1D7FF", "U+1E149", "U+1E2F9", "U+1E959", "U+1FBF9"}>>

Range(f) == {f[i] : i \in DOMAIN f}
\* the three cases of a character of the table
CaseMap ==
  [c \in Range(CaseFrom) |-> CaseTo[CHOOSE i \in DOMAIN CaseFrom : CaseFrom[i] = c]]

IsCased(c) == c \in Cased
IsDigit(c) == \E v \in DOMAIN Digits : c \in Digits[v]
\* the value float() gives a digit
DigitVal(c) == (CHOOSE v \in DOMAIN Digits : c \in Digits[v]) - 1
IsSpace(c) == c \in Spaces

RECURSIVE Flatten(_)
Flatten(texts) ==
  IF texts = <<>> THEN <<>> ELSE Head(texts) \o Flatten(Tail(texts))

\* str.upper(), str.lower() and the title-case mapping of one character
ToUpperChar(c) == IF c \in DOMAIN CaseMap THEN CaseMap[c][1] ELSE <<c>>
ToLowerChar(c) == IF c \in DOMAIN CaseMap THEN CaseMap[c][2] ELSE <<c>>
ToTitleChar(c) == IF c \in DOMAIN CaseMap THEN CaseMap[c][3] ELSE <<c>>

\* whether the capital sigma at place i of s is lower-cased to the final
\* sigma: the nearest character before it that is not case-ignorable is
\* cased, and the nearest one after it, if any, is not
FinalSigma(s, i) ==
  LET before == {j \in 1..(i - 1) : s[j] \notin CaseIgnorable}
      after  == {j \in (i + 1)..Len(s) : s[j] \notin CaseIgnorable}
  IN /\ before # {}
     /\ IsCased(s[CHOOSE j \in before : \A k \in before : k <= j])
     /\ \/ after = {}
        \/ ~IsCased(s[CHOOSE j \in after : \A k \in after : j <= k])

\* the lower case of the character at place i of s
LowerAt(s, i) ==
  IF s[i] = "Σ" THEN (IF FinalSigma(s, i) THEN <<"ς">> ELSE <<"σ">>)
  ELSE ToLowerChar(s[i])

\* str.upper(), str.lower()
Upper(s) == Flatten([i \in DOMAIN s |-> ToUpperChar(s[i])])
Lower(s) == Flatten([i \in DOMAIN s |-> LowerAt(s, i)])

\* str.replace(ch, ""): every occurrence of the character removed
Remove(s, chars) == SelectSeq(s, LAMBDA c : c \notin chars)

\* str.strip(): leading and trailing whitespace removed
Strip(s) ==
  LET keep == {i \in DOMAIN s : ~IsSpace(s[i])}
  IN IF keep = {} THEN <<>>
     ELSE LET lo == CHOOSE i \in keep : \A j \in keep : i <= j
              hi == CHOOSE i \in keep : \A j \in keep : j <= i
          IN SubSeq(s, lo, hi)

\* str.title(): a character is lower-cased when the character before it is
\* cased, and title-cased otherwise (or when it is the first)
Title(s) ==
  Flatten([i \in DOMAIN s |->
             IF i > 1 /\ IsCased(s[i-1]) THEN LowerAt(s, i) ELSE ToTitleChar(s[i])])

(* ------------------------------------------------------------------ *)
(* Floats                                                              *)
(* ------------------------------------------------------------------ *)
\* A float is [m, e, ulp]: the double that lies ulp doubles above (below,
\* when ulp is negative) the double nearest to the decimal m * 10^e, with m
\* not divisible by ten (zero is [0, 0, 0]).  float() of a decimal text and
\* the numeric cells have ulp = 0; a product may round one double away.
RECURSIVE Pow10(_)
Pow10(k) == IF k <= 0 THEN 1 ELSE 10 * Pow10(k - 1)

RECURSIVE NumDigits(_)
NumDigits(n) == IF n < 10 THEN 1 ELSE 1 + NumDigits(n \div 10)

RECURSIVE Norm(_, _)
Norm(m, e) ==
  IF m = 0 THEN [m |-> 0, e |-> 0, ulp |-> 0]
  ELSE IF m % 10 = 0 THEN Norm(m \div 10, e + 1)
  ELSE [m |-> m, e |-> e, ulp |-> 0]

\* position of the leading digit: the decimal lies in [10^(Mag-1), 10^Mag)
Mag(d) == NumDigits(d.m) + d.e

\* a < b and a <= b on floats
DecLess(a, b) ==
  IF a.m = b.m /\ a.e = b.e THEN a.ulp < b.ulp
  ELSE IF a.m = 0 THEN b.m > 0
  ELSE IF b.m = 0 THEN FALSE
  ELSE IF Mag(a) # Mag(b) THEN Mag(a) < Mag(b)
  ELSE LET k == IF NumDigits(a.m) > NumDigits(b.m)
                THEN NumDigits(a.m) ELSE NumDigits(b.m)
       IN a.m * Pow10(k - NumDigits(a.m)) < b.m * Pow10(k - NumDigits(b.m))
DecLeq(a, b) == (a.m = b.m /\ a.e = b.e /\ a.ulp = b.ulp) \/ DecLess(a, b)

\* The 53-bit significand of a double is a natural number in base 2^15,
\* least significant limb first, without leading zero limbs.
Base == 32768

RECURSIVE BigOf(_)
BigOf(n) == IF n = 0 THEN <<>> ELSE <<n % Base>> \o BigOf(n \div Base)

RECURSIVE Trim(_)
Trim(a) ==
  IF a # <<>> /\ a[Len(a)] = 0 THEN Trim(SubSeq(a, 1, Len(a) - 1)) ELSE a

\* a * c + carry, for a small c
RECURSIVE BigTimes(_, _, _)
BigTimes(a, c, carry) ==
  IF a = <<>> THEN BigOf(carry)
  ELSE LET t == a[1] * c + carry
       IN <<t % Base>> \o BigTimes(Tail(a), c, t \div Base)

\* quotient and remainder of a by a small c
RECURSIVE BigDiv(_, _)
BigDiv(a, c) ==
  IF a = <<>> THEN [q |-> <<>>, r |-> 0]
  ELSE LET hi == BigDiv(Tail(a), c)
           t  == hi.r * Base + a[1]
       IN [q |-> <<t \div c>> \o hi.q, r |-> t % c]

RECURSIVE TimesPow10(_, _)
TimesPow10(a, k) ==
  IF k = 0 THEN a
  ELSE IF k >= 4 THEN TimesPow10(BigTimes(a, 10000, 0), k - 4)
  ELSE BigTimes(a, Pow10(k), 0)

\* floor(a / 10^k), and whether anything was cut off
RECURSIVE DivPow10(_, _)
DivPow10(a, k) ==
  IF k = 0 THEN [q |-> a, sticky |-> FALSE]
  ELSE LET d    == BigDiv(a, Pow10(IF k >= 4 THEN 4 ELSE k))
           rest == DivPow10(Trim(d.q), IF k >= 4 THEN k - 4 ELSE 0)
       IN [q |-> rest.q, sticky |-> rest.sticky \/ d.r # 0]

RECURSIVE Pow2(_)
Pow2(k) == IF k <= 0 THEN 1 ELSE 2 * Pow2(k - 1)
RECURSIVE Bits(_)
Bits(n) == IF n = 0 THEN 0 ELSE 1 + Bits(n \div 2)
BitLength(a) == IF a = <<>> THEN 0 ELSE 15 * (Len(a) - 1) + Bits(a[Len(a)])

\* floor(a / 2^n), and whether anything was cut off
ShiftRight(a, n) ==
  LET limbs == n \div 15
      low   == SubSeq(a, 1, limbs)
      d     == BigDiv(SubSeq(a, limbs + 1, Len(a)), Pow2(n % 15))
  IN [q |-> Trim(d.q), sticky |-> d.r # 0 \/ \E i \in DOMAIN low : low[i] # 0]

\* a * 2^exp (and a little more when sticky) rounded to a double [M, q] of
\* value M * 2^q with 2^52 <= M < 2^53: round to nearest, ties to even
Round53(a, sticky, exp) ==
  LET b    == BitLength(a)
      sh   == ShiftRight(a, b - 54)
      half == BigDiv(sh.q, 2)
      M    == Trim(half.q)
      up   == half.r = 1 /\ (sh.sticky \/ sticky \/ M[1] % 2 = 1)
      R    == IF up THEN BigTimes(M, 1, 1) ELSE M
  IN IF BitLength(R) = 54
       THEN [M |-> Trim(BigDiv(R, 2).q), q |-> exp + b - 52]
       ELSE [M |-> R, q |-> exp + b - 53]

\* the double nearest to m * 10^e, for m > 0
ToDouble(m, e) ==
  IF e >= 0
    THEN Round53([i \in 1..5 |-> 0] \o TimesPow10(BigOf(m), e), FALSE, -75)
    ELSE LET L == 6 + (-e) \div 4
             d == DivPow10([i \in 1..L |-> 0] \o BigOf(m), -e)
         IN Round53(d.q, d.sticky, -15 * L)

\* the n-th double above x
RECURSIVE DoubleAbove(_, _)
DoubleAbove(x, n) ==
  IF n = 0 THEN x
  ELSE LET R == BigTimes(x.M, 1, 1)
       IN DoubleAbove(IF BitLength(R) = 54
                        THEN [M |-> Trim(BigDiv(R, 2).q), q |-> x.q + 1]
                        ELSE [M |-> R, q |-> x.q], n - 1)

\* x * 10^k for a float x = float(text) and the multiplier 10^k, as the
\* double product gives it.  The product of two integers below 10^15 is
\* exact; otherwise the factor and the product are each rounded to a double.
Scale(d, k) ==
  IF d.m = 0 \/ k = 0 THEN d
  ELSE IF d.e >= 0 /\ Mag(d) + k <= 15 THEN [m |-> d.m, e |-> d.e + k, ulp |-> 0]
  ELSE LET x    == ToDouble(d.m, d.e)
           prod == Round53(TimesPow10(x.M, k), FALSE, x.q)
           near == ToDouble(d.m, d.e + k)
       IN [m |-> d.m, e |-> d.e + k,
           ulp |-> CHOOSE o \in -3..3 :
                     IF o >= 0 THEN DoubleAbove(near, o) = prod
                     ELSE DoubleAbove(prod, -o) = near]

(* ------------------------------------------------------------------ *)
(* Cells of a loaded table                                             *)
(* ------------------------------------------------------------------ *)
\* a missing value (NaN / None), a text cell, an integer cell, a float cell
NA == [kind |-> "na", s |-> <<>>, m |-> 0, e |-> 0, ulp |-> 0]
Text(s) == [kind |-> "text", s |-> s, m |-> 0, e |-> 0, ulp |-> 0]
IntCell(n) == [kind |-> "int", s |-> <<>>, m |-> n, e |-> 0, ulp |-> 0]
FloatCell(m, e) ==
  [kind |-> "float", s |-> <<>>, m |-> Norm(m, e).m, e |-> Norm(m, e).e, ulp |-> 0]

\* pd.isna(raw)
IsNa(raw) == raw.kind = "na"

RECURSIVE DigitsOf(_)
DigitsOf(n) ==
  LET ascii == <<"0", "1", "2", "3", "4", "5", "6", "7", "8", "9">>
  IN IF n < 10 THEN <<ascii[n + 1]>>
     ELSE Append(DigitsOf(n \div 10), ascii[(n % 10) + 1])

Zeros(k) == [i \in 1..k |-> "0"]

\* repr of a non-negative float: fixed notation while the decimal point
\* position is in -3..16, exponent notation otherwise
FloatRepr(d) ==
  LET ds == DigitsOf(d.m)
      nd == Len(ds)
      x  == nd - 1 + d.e
      ax == IF x < 0 THEN -x ELSE x
  IN IF d.m = 0 THEN <<"0", ".", "0">>
     ELSE IF -4 <= x /\ x < 16
       THEN IF d.e >= 0 THEN ds \o Zeros(d.e) \o <<".", "0">>
            ELSE IF nd > -d.e
              THEN SubSeq(ds, 1, nd + d.e) \o <<".">> \o SubSeq(ds, nd + d.e + 1, nd)
              ELSE <<"0", ".">> \o Zeros(-d.e - nd) \o ds
       ELSE <<ds[1]>>
            \o (IF nd > 1 THEN <<".">> \o SubSeq(ds, 2, nd) ELSE <<>>)
            \o <<"e", IF x < 0 THEN "-" ELSE "+">>
            \o (IF ax < 10 THEN <<"0">> ELSE <<>>) \o DigitsOf(ax)

\* str(raw)
PyStr(raw) ==
  IF raw.kind = "text" THEN raw.s
  ELSE IF raw.kind = "int" THEN DigitsOf(raw.m)
  ELSE IF raw.kind = "float" THEN FloatRepr(raw)
  ELSE <<"n", "a", "n">>

(* ------------------------------------------------------------------ *)
(* _parse_funding                                                      *)
(* ------------------------------------------------------------------ *)
\* results of a call: a float, NaN (the missing value), or a raised ValueError
Num(d) == [kind |-> "float", s |-> <<>>, m |-> d.m, e |-> d.e, ulp |-> d.ulp]
NaN == NA
ValueError == [kind |-> "ValueError", s |-> <<>>, m |-> 0, e |-> 0, ulp |-> 0]

\* _SUFFIX, as powers of ten, and the default 1 of _SUFFIX.get
SuffixExp(key) ==
  IF key = <<"K">> THEN 3 ELSE IF key = <<"M">> THEN 6 ELSE IF key = <<"B">> THEN 9 ELSE 0

\* the symbols removed by the chain of str.replace calls
Removed == {",", "$", "€", "£"}

CleanText(raw) == Strip(Remove(PyStr(raw), Removed))

IsNumChar(c) == IsDigit(c) \/ c = "."

\* re.fullmatch(r"([\d.]+)\s*([KMB])?", text, flags=re.I): the groups, or no
\* match; under re.I the class [KMB] takes either case of the letters and
\* the Kelvin sign U+212A, whose lower case is k
FullMatch(text) ==
  LET stops == {i \in DOMAIN text : ~IsNumChar(text[i])}
      n     == IF stops = {} THEN Len(text)
               ELSE (CHOOSE i \in stops : \A j \in stops : i <= j) - 1
      rest  == SubSeq(text, n + 1, Len(text))
      black == {i \in DOMAIN rest : ~IsSpace(rest[i])}
      tail  == IF black = {} THEN <<>>
               ELSE SubSeq(rest, CHOOSE i \in black : \A j \in black : i <= j, Len(rest))
  IN IF n >= 1 /\ tail = <<>>
       THEN [ok |-> TRUE, g1 |-> SubSeq(text, 1, n), g2 |-> <<>>]
     ELSE IF n >= 1 /\ Len(tail) = 1 /\ tail[1] \in {"K", "M", "B", "k", "m", "b", "U+212A"}
       THEN [ok |-> TRUE, g1 |-> SubSeq(text, 1, n), g2 |-> tail]
     ELSE [ok |-> FALSE, g1 |-> <<>>, g2 |-> <<>>]

RECURSIVE DigitsValue(_)
DigitsValue(ds) ==
  IF ds = <<>> THEN 0
  ELSE 10 * DigitsValue(SubSeq(ds, 1, Len(ds) - 1)) + DigitVal(ds[Len(ds)])

\* float(s) on the strings its callers pass, digits and points from the
\* pattern and ASCII digits, points, M and K from cleanMoney: a ValueError
\* unless s is made of digits with at most one point and at least one digit
PyFloat(s) ==
  LET points == {i \in DOMAIN s : s[i] = "."}
      digits == Remove(s, {"."})
      frac   == IF points = {} THEN 0
                ELSE Len(s) - (CHOOSE i \in points : TRUE)
      nz     == {i \in DOMAIN digits : IsDigit(digits[i]) /\ DigitVal(digits[i]) # 0}
      last   == IF nz = {} THEN 0 ELSE CHOOSE i \in nz : \A j \in nz : j <= i
  IN IF Cardinality(points) > 1 \/ digits = <<>>
        \/ (\E i \in DOMAIN s : ~IsDigit(s[i]) /\ s[i] # ".") THEN ValueError
     ELSE Num(Norm(DigitsValue(SubSeq(digits, 1, last)), Len(digits) - last - frac))

ParseFunding(raw) ==
  IF IsNa(raw) THEN NaN
  ELSE LET mt == FullMatch(CleanText(raw))
       IN IF ~mt.ok THEN NaN
          ELSE LET number == PyFloat(mt.g1)
                   multiplier == SuffixExp(IF mt.g2 # <<>> THEN Upper(mt.g2) ELSE <<>>)
               IN IF number.kind = "ValueError" THEN ValueError
                  ELSE Num(Scale(number, multiplier))

(* ------------------------------------------------------------------ *)
(* _human_funding                                                      *)
(* ------------------------------------------------------------------ *)
Billion == [m |-> 1, e |-> 9, ulp |-> 0]
Million == [m |-> 1, e |-> 6, ulp |-> 0]
Thousand == [m |-> 1, e |-> 3, ulp |-> 0]

\* the digits of usd / 10^k rounded to p decimals, without the point.  A
\* value exactly half way between two neighbours goes to the one the binary
\* double falls nearer to, which the decimal does not tell: up picks it.
RoundedDigits(usd, k, p, up) ==
  LET sh   == usd.e - k + p
      drop == -sh
      q    == IF drop > 9 THEN 0 ELSE usd.m \div Pow10(drop)
      r    == IF drop > 9 THEN 0 ELSE usd.m % Pow10(drop)
      half == 5 * Pow10(drop - 1)
      n    == IF drop > 9 \/ r < half THEN q
              ELSE IF r > half THEN q + 1
              ELSE IF up THEN q + 1 ELSE q
  IN IF usd.m = 0 THEN <<"0">>
     ELSE IF sh >= 0 THEN DigitsOf(usd.m) \o Zeros(sh)
     ELSE DigitsOf(n)

IsTie(usd, k, p) ==
  LET drop == -(usd.e - k + p)
  IN usd.m # 0 /\ drop >= 1 /\ drop <= 9 /\ usd.m % Pow10(drop) = 5 * Pow10(drop - 1)

\* format spec .1f
OneDecimal(ds) ==
  LET padded == IF Len(ds) < 2 THEN <<"0">> \o ds ELSE ds
  IN SubSeq(padded, 1, Len(padded) - 1) \o <<".">> \o <<padded[Len(padded)]>>

\* format spec ,.0f for a value below 1000.5
Grouped3(ds) ==
  IF Len(ds) > 3 THEN SubSeq(ds, 1, Len(ds) - 3) \o <<",">> \o SubSeq(ds, Len(ds) - 2, Len(ds))
  ELSE ds

HumanFunding(usd, up) ==
  IF IsNa(usd) THEN <<>>
  ELSE IF ~DecLess(usd, Billion)
    THEN <<"$">> \o OneDecimal(RoundedDigits(usd, 9, 1, up)) \o <<"B">>
  ELSE IF ~DecLess(usd, Million)
    THEN <<"$">> \o OneDecimal(RoundedDigits(usd, 6, 1, up)) \o <<"M">>
  ELSE IF ~DecLess(usd, Thousand)
    THEN <<"$">> \o RoundedDigits(usd, 3, 0, up) \o <<"K">>
  ELSE <<"$">> \o Grouped3(RoundedDigits(usd, 0, 0, up))

\* whether the rendering of usd rests on a half-way case
HumanTie(usd) ==
  IF IsNa(usd) THEN FALSE
  ELSE IF ~DecLess(usd, Billion) THEN IsTie(usd, 9, 1)
  ELSE IF ~DecLess(usd, Million) THEN IsTie(usd, 6, 1)
  ELSE IF ~DecLess(usd, Thousand) THEN IsTie(usd, 3, 0)
  ELSE IsTie(usd, 0, 0)

(* ------------------------------------------------------------------ *)
(* Frames: cols is the header, rows a sequence of rows of cells         *)
(* ------------------------------------------------------------------ *)
COMPANY == <<"C","o","m","p","a","n","y">>
FUNDING == <<"R","e","c","e","n","t"," ","F","u","n","d","i","n","g"," ",
             "A","m","o","u","n","t">>
MARKET == <<"U","s","i","n","g"," ","c","l","o","u","d"," ",
            "m","a","r","k","e","t","p","l","a","c","e","s","?">>
FUNDINGUSD == <<"F","u","n","d","i","n","g","U","S","D">>

\* the set `required`, in the order sorted() gives its names
Required == <<COMPANY, FUNDING, MARKET>>

EmptyFrame == [cols |-> <<>>, rows |-> <<>>]

\* df.rename(columns={c: c.strip() for c in df.columns})
RenameStripped(frame) ==
  [cols |-> [i \in DOMAIN frame.cols |-> Strip(frame.cols[i])], rows |-> frame.rows]

ColIndex(frame, name) == CHOOSE i \in DOMAIN frame.cols : frame.cols[i] = name
Column(frame, name) ==
  [r \in DOMAIN frame.rows |-> frame.rows[r][ColIndex(frame, name)]]

\* df[name] = values: the column replaced, or appended when it is new
SetColumn(frame, name, values) ==
  IF name \in Range(frame.cols)
    THEN [cols |-> frame.cols,
          rows |-> [r \in DOMAIN frame.rows |->
                      [frame.rows[r] EXCEPT ![ColIndex(frame, name)] = values[r]]]]
    ELSE [cols |-> Append(frame.cols, name),
          rows |-> [r \in DOMAIN frame.rows |-> Append(frame.rows[r], values[r])]]

\* sorted(required - set(df.columns))
MissingColumnsFirst(frame) ==
  LET all == SelectSeq(Required, LAMBDA c : c \notin Range(frame.cols))
  IN IF all = <<>> THEN all ELSE <<all[1]>>
MissingColumns(frame) == SelectSeq(Required, LAMBDA c : c \notin Range(frame.cols))

\* Series.astype(str) on one cell: a missing value becomes the text "nan",
\* or stays missing under a pandas whose str dtype keeps missing values
AsTypeStr(cell, keepNa) ==
  IF IsNa(cell) THEN (IF keepNa THEN NA ELSE Text(<<"n", "a", "n">>))
  ELSE Text(PyStr(cell))

\* df["Company"].astype(str).str.strip().str.title() on one cell
NormalizeCompanyCell(cell, keepNa) ==
  LET t == AsTypeStr(cell, keepNa)
  IN IF IsNa(t) THEN NA ELSE Text(Title(Strip(t.s)))

\* line 99 on the whole column
WithCompany(frame, keepNa) ==
  SetColumn(frame, COMPANY,
    [r \in DOMAIN frame.rows |-> NormalizeCompanyCell(Column(frame, COMPANY)[r], keepNa)])

\* df["Recent Funding Amount"].apply(_parse_funding): the result of each call
FundingValues(frame) ==
  [r \in DOMAIN frame.rows |-> ParseFunding(Column(frame, FUNDING)[r])]

\* df.dropna(subset=names)
DropNa(frame, names) ==
  [cols |-> frame.cols,
   rows |-> SelectSeq(frame.rows,
              LAMBDA row : \A c \in names : ~IsNa(row[ColIndex(frame, c)]))]

(* ------------------------------------------------------------------ *)
(* groupby("Company").agg(...).sort_values(...).head(top_n)             *)
(* ------------------------------------------------------------------ *)
YES == <<"Y", "e", "s">>
NO == <<"N", "o">>

\* the aggregation "max" over the FundingUSD values of one group
AggMaxFirst(values) == values[1]
AggMax(values) ==
  CHOOSE v \in Range(values) : \A w \in Range(values) : DecLeq(w, v)

\* the lambda: "Yes" if (col.astype(str).str.lower() == "yes").any() else "No"
UsingCloudLast(col, keepNa) ==
  LET t == AsTypeStr(col[Len(col)], keepNa)
  IN IF ~IsNa(t) /\ Lower(t.s) = <<"y", "e", "s">> THEN Text(YES) ELSE Text(NO)
UsingCloud(col, keepNa) ==
  IF \E i \in DOMAIN col :
       LET t == AsTypeStr(col[i], keepNa)
       IN ~IsNa(t) /\ Lower(t.s) = <<"y", "e", "s">>
    THEN Text(YES) ELSE Text(NO)

GroupRows(frame, key) ==
  SelectSeq(frame.rows, LAMBDA row : row[ColIndex(frame, COMPANY)] = key)

\* one aggregate per distinct Company of the frame
Aggregates(frame, keepNa) ==
  {LET g == [cols |-> frame.cols, rows |-> GroupRows(frame, key)]
   IN [Company    |-> key,
       FundingUSD |-> AggMax(Column(g, FUNDINGUSD)),
       UsingCloud |-> UsingCloud(Column(g, MARKET), keepNa)]
   : key \in Range(Column(frame, COMPANY))}

Orderings(S) ==
  {f \in [1..Cardinality(S) -> S] : \A i, j \in DOMAIN f : i # j => f[i] # f[j]}

\* sort_values("FundingUSD", ascending=False): every order with the funding
\* non-increasing (the order among equal values is the sort algorithm's)
SortValues(S) ==
  {f \in Orderings(S) :
     \A i \in 1..(Len(f) - 1) : DecLeq(f[i+1].FundingUSD, f[i].FundingUSD)}

\* lines 88-113 on a file as read: whether apply raised, and the aggregates
\* the chain sorts and truncates
PipelineAggregates(file, keepNa) ==
  LET f1   == WithCompany(RenameStripped(file), keepNa)
      vals == FundingValues(f1)
  IN IF \E r \in DOMAIN vals : vals[r].kind = "ValueError"
       THEN [raised |-> TRUE, aggs |-> {}]
       ELSE [raised |-> FALSE,
             aggs |-> Aggregates(DropNa(SetColumn(f1, FUNDINGUSD, vals),
                                        {COMPANY, FUNDINGUSD}), keepNa)]

\* DataFrame.head(n)
HeadRowsOneMore(f, n) == SubSeq(f, 1, IF n + 1 < Len(f) THEN n + 1 ELSE Len(f))
HeadRows(f, n) ==
  IF n >= 0 THEN SubSeq(f, 1, IF n < Len(f) THEN n ELSE Len(f))
  ELSE SubSeq(f, 1, IF Len(f) + n > 0 THEN Len(f) + n ELSE 0)

\* grouped.insert(1, "Recent Funding Amount", grouped.pop("FundingUSD").apply(
\* _human_funding)) and the rename of UsingCloud, on one row
RenderRow(row, up) ==
  [Company |-> row.Company,
   RecentFundingAmount |-> Text(HumanFunding(row.FundingUSD, up)),
   UsingCloudMarketplace |-> row.UsingCloud]

Renderings(f) ==
  {[i \in DOMAIN f |-> RenderRow(f[i], ups[i])] :
     ups \in {u \in [DOMAIN f -> BOOLEAN] :
                \A i \in DOMAIN f : u[i] => HumanTie(f[i].FundingUSD)}}

(* ------------------------------------------------------------------ *)
(* tester2.py: _auto_find_input                                        *)
(* ------------------------------------------------------------------ *)
\* the files the script folder may hold, in the order sorted() puts them
FolderFiles == <<
  [name |-> "a.csv",      suffix |-> ".csv"],
  [name |-> "b.xls",      suffix |-> ".xls"],
  [name |-> "c.xlsx",     suffix |-> ".xlsx"],
  [name |-> "d.txt",      suffix |-> ".txt"],
  [name |-> "e.CSV",      suffix |-> ".CSV"],
  [name |-> "f.csv",      suffix |-> ".csv"],
  [name |-> "tester2.py", suffix |-> ".py"]
>>

\* here.glob("*" + suffix): a generator over the matching files of the folder
Glob(folder, suffix) ==
  [type |-> "generator", items |-> {f \in folder : FolderFiles[f].suffix = suffix}]
\* list(iterable)
ToList(it) == [type |-> "list", items |-> it.items]
TypeErrorValue == [type |-> "TypeError", items |-> {}]
\* a + b: defined for two lists, a TypeError for a generator and a list
PyAdd(a, b) ==
  IF a.type = "list" /\ b.type = "list"
    THEN [type |-> "list", items |-> a.items \cup b.items]
    ELSE TypeErrorValue

\* sorted(files): FolderFiles is in sorted order, so by index
SortedFiles(S) ==
  [i \in 1..Cardinality(S) |->
     CHOOSE f \in S : Cardinality({g \in S : g < f}) = i - 1]

Found(file) == [kind |-> "ok", file |-> file, names |-> <<>>]
Failed(kind, names) == [kind |-> kind, file |-> 0, names |-> names]

\* _auto_find_input(): the file found, or the exception raised
AutoFindInput(folder) ==
  LET sum == PyAdd(PyAdd(Glob(folder, ".csv"), ToList(Glob(folder, ".xls"))),
                   ToList(Glob(folder, ".xlsx")))
  IN IF sum.type = "TypeError" THEN Failed("TypeError", <<>>)
     ELSE LET candidates == SortedFiles(sum.items)
          IN IF candidates = <<>> THEN Failed("FileNotFoundError", <<>>)
             ELSE IF Len(candidates) > 1
               THEN Failed("FileExistsError",
                           [i \in DOMAIN candidates |-> FolderFiles[candidates[i]].name])
             ELSE Found(candidates[1])

(* ------------------------------------------------------------------ *)
(* usun_duplikat.py                                                    *)
(* ------------------------------------------------------------------ *)
\* the value of a numeric cell
ValueOf(cell) == [m |-> Norm(cell.m, cell.e).m, e |-> Norm(cell.m, cell.e).e, ulp |-> cell.ulp]

\* re.sub(r'[^0-9.BMK]', '', money): the ASCII digits, the point and the
\* three capitals are kept
KeepMoneyChars(t) ==
  SelectSeq(t, LAMBDA c : c \in {"0", "1", "2", "3", "4", "5", "6", "7", "8", "9",
                                  ".", "B", "M", "K"})

\* float(money.replace(letter, "")) * 10^k, or the 0 of the except branch
MoneyTimes(t, letter, k) ==
  LET number == PyFloat(Remove(t, {letter}))
  IN IF number.kind = "ValueError" THEN IntCell(0) ELSE Num(Scale(number, k))

cleanMoney(money) ==
  IF IsNa(money) THEN IntCell(0)
  ELSE IF money.kind = "text"
    THEN LET t == KeepMoneyChars(Remove(Upper(Strip(money.s)), {" "}))
         IN IF \E i \in DOMAIN t : t[i] = "B" THEN MoneyTimes(t, "B", 9)
            ELSE IF \E i \in DOMAIN t : t[i] = "M" THEN MoneyTimes(t, "M", 6)
            ELSE IF \E i \in DOMAIN t : t[i] = "K" THEN MoneyTimes(t, "K", 3)
            ELSE MoneyTimes(t, "", 0)
  ELSE money

\* DataFrame.drop_duplicates(): of equal rows the first is kept
RECURSIVE DropDuplicates(_)
DropDuplicates(rows) ==
  IF rows = <<>> THEN <<>>
  ELSE LET init == DropDuplicates(SubSeq(rows, 1, Len(rows) - 1))
           last == rows[Len(rows)]
       IN IF \E i \in DOMAIN init : init[i] = last THEN init ELSE Append(init, last)

\* DataFrame.drop_duplicates(subset='Company'): the first row of each Company
RECURSIVE DropDuplicateCompanies(_)
DropDuplicateCompanies(rows) ==
  IF rows = <<>> THEN <<>>
  ELSE LET init == DropDuplicateCompanies(SubSeq(rows, 1, Len(rows) - 1))
           last == rows[Len(rows)]
       IN IF \E i \in DOMAIN init : init[i].c = last.c THEN init ELSE Append(init, last)

\* nonReps['Recent Funding Amount (USD)'] = nonReps['Recent Funding Amount']
\* .apply(cleanMoney), and the drop of 'Recent Funding Amount'
WithUsd(rows) ==
  [i \in DOMAIN rows |-> [c |-> rows[i].c, u |-> rows[i].u, usd |-> cleanMoney(rows[i].f)]]

\* sort_values(by='Recent Funding Amount (USD)', ascending=False): every
\* order of the rows with the amount non-increasing
SortByUsd(rows) ==
  {[i \in DOMAIN rows |-> rows[p[i]]] :
     p \in {q \in Permutations(DOMAIN rows) :
              \A i \in 1..(Len(rows) - 1) :
                DecLeq(ValueOf(rows[q[i + 1]].usd), ValueOf(rows[q[i]].usd))}}

RECURSIVE Concat(_)
\* pd.concat(res, ignore_index=True)
Concat(frames) ==
  IF frames = <<>> THEN <<>>
  ELSE Concat(SubSeq(frames, 1, Len(frames) - 1)) \o frames[Len(frames)]

(* ------------------------------------------------------------------ *)
(* State                                                               *)
(* ------------------------------------------------------------------ *)
VARIABLES
  pc,       \* position of the running script or call
  raw,      \* _parse_funding: the argument
  parsed,   \* _parse_funding: the value returned or the exception raised
  keepNa,   \* whether astype(str) of the installed pandas keeps missing values
  table,    \* the input file as read: its header and rows
  df,       \* top_funded_companies: the frame df
  nParsed,  \* number of _parse_funding calls made by df[...].apply
  top_n,    \* the argument top_n, from where line 115 reads it
  grouped,  \* top_funded_companies: the frame grouped
  written,  \* the output file
  result,   \* how the call ended: returned, or the exception raised
  folder,     \* tester2.py: the files beside the script
  input_file, \* tester2.py: args.input_file
  input_path, \* tester2.py: the path main() passes on
  found,      \* tester2.py: what _auto_find_input returned or raised
  workbook, \* usun_duplikat.py: the sheets of the input workbook
  sheetIdx, \* usun_duplikat.py: the sheet the loop is at
  res,      \* usun_duplikat.py: the list res
  nonReps,  \* usun_duplikat.py: the frame nonReps
  outfile,  \* usun_duplikat.py: the output workbook
  printed   \* usun_duplikat.py: the lines printed, in order

parseVars == <<raw, parsed>>
pipeVars == <<keepNa, table, df, nParsed, top_n, grouped, written, result>>
cliVars == <<folder, input_file, input_path, found>>
dedupVars == <<workbook, sheetIdx, res, nonReps, outfile, printed>>
vars == <<pc, parseVars, pipeVars, cliVars, dedupVars>>

None == [kind |-> "none", s |-> <<>>, m |-> 0, e |-> 0, ulp |-> 0]
NoFile == [exists |-> FALSE, rows |-> <<>>]
Running == [kind |-> "none", what |-> "", missing |-> <<>>]
Returned == [kind |-> "ok", what |-> "", missing |-> <<>>]
Raised(kind, what, missing) == [kind |-> kind, what |-> what, missing |-> missing]

NoArg == [given |-> FALSE, absolute |-> FALSE, name |-> ""]
NoPath == [dir |-> "", name |-> ""]
NotCalled == [kind |-> "none", file |-> 0, names |-> <<>>]

ParseIdle == raw = NA /\ parsed = None
CliIdle == folder = {} /\ input_file = NoArg /\ input_path = NoPath /\ found = NotCalled
DedupIdle ==
  /\ workbook = <<>> /\ sheetIdx = 0 /\ res = <<>> /\ nonReps = <<>>
  /\ outfile = NoFile /\ printed = <<>>
PipeIdle ==
  /\ keepNa = FALSE /\ table = EmptyFrame /\ df = EmptyFrame
  /\ nParsed = 0 /\ top_n = 0
  /\ grouped = <<>> /\ written = NoFile /\ result = Running

(* ------------------------------------------------------------------ *)
(* The parser called on one cell                                       *)
(* ------------------------------------------------------------------ *)
\* "4.1m" is a text whose product 4.1 * 1e6 is not the double nearest
\* 4100000; the last character is the digit three of another script
ParseAlphabet ==
  {"1", "4", ".", ",", "$", "€", " ", "\n", "K", "m", "b", "x", "-", "۳"}
TextsUpTo(n, alphabet) == UNION {[1..k -> alphabet] : k \in 0..n}
NumericCells ==
  {IntCell(n) : n \in {0, 7, 1500}}
  \cup {FloatCell(m, e) : m \in {0, 1, 25}, e \in {-6, -5, -1, 0, 5, 14, 15, 16}}
ParseInputs == {NA} \cup NumericCells \cup {Text(t) : t \in TextsUpTo(MaxLen, ParseAlphabet)}

ParseInit ==
  /\ pc = "parse"
  /\ raw \in ParseInputs
  /\ parsed = None
  /\ PipeIdle /\ CliIdle /\ DedupIdle

ParseCall ==
  /\ pc = "parse"
  /\ parsed' = ParseFunding(raw)
  /\ pc' = "parsed"
  /\ UNCHANGED <<raw, pipeVars, cliVars, dedupVars>>

ParseNext == ParseCall
ParseSpec == ParseInit /\ [][ParseNext]_vars

(* ------------------------------------------------------------------ *)
(* Input tables                                                        *)
(* ------------------------------------------------------------------ *)
AcmeInc == <<"A","c","m","e"," ","I","n","c">>
AcmeLower == <<"a","c","m","e"," ","i","n","c","\n">>
AcmeUpper == <<" ","A","C","M","E"," ","I","N","C">>
BetaLLC == <<"B","e","t","a"," ","L","L","C">>
Gamma == <<"g","a","m","m","a">>
Blank == <<" ", " ">>
Garbage == <<"g","a","r","b","a","g","e">>
Notes == <<"N","o","t","e","s">>

Row(c, f, u) == [c |-> c, f |-> f, u |-> u]

\* the rows input tables are made of
RowPool == <<
  Row(Text(AcmeInc),   Text(<<"$","2","M">>),         Text(YES)),
  Row(Text(AcmeLower), Text(<<"$","5","M">>),         Text(NO)),
  Row(Text(BetaLLC),   Text(<<"5","0","0","K">>),     Text(<<"y","e","s">>)),
  Row(Text(AcmeUpper), Text(Garbage),                 Text(<<"Y","E","S">>)),
  Row(Text(BetaLLC),   Text(<<"1",".","2",".","3">>), NA),
  Row(NA,              Text(<<"$","5","M">>),         Text(YES)),
  Row(Text(Blank),     Text(<<"7","5","0"," ","K">>), Text(NO)),
  Row(Text(Gamma),     FloatCell(5, 6),               Text(<<" ","y","e","s">>))
>>

Tables == UNION {[1..k -> Range(RowPool)] : k \in 0..MaxRows}

Pad(name) == <<" ">> \o name \o <<" ", " ">>
Col(name, role) == [name |-> name, role |-> role]

\* the headers of input files: each column with the cell of a row it holds
Headers == {
  <<Col(COMPANY, "c"), Col(FUNDING, "f"), Col(MARKET, "u")>>,
  <<Col(Pad(FUNDING), "f"), Col(Notes, "x"), Col(MARKET, "u"), Col(Pad(COMPANY), "c")>>,
  <<Col(FUNDING, "f"), Col(MARKET, "u")>>,
  <<Col(COMPANY, "c"), Col(Notes, "x")>>,
  <<Col(Lower(COMPANY), "c"), Col(FUNDING, "f"), Col(MARKET, "u")>>,
  <<Col(Notes, "x")>>
}

FileCell(role, r) ==
  IF role = "c" THEN r.c ELSE IF role = "f" THEN r.f
  ELSE IF role = "u" THEN r.u ELSE Text(<<"x">>)

\* pd.read_csv(path) / pd.read_excel(path) of a file with header h and rows t
ReadFrame(h, t) ==
  [cols |-> [i \in DOMAIN h |-> h[i].name],
   rows |-> [r \in DOMAIN t |-> [i \in DOMAIN h |-> FileCell(h[i].role, t[r])]]]

InputExts == {".csv", ".xls", ".xlsx", ".txt"}
OutputExts == {"", ".csv", ".xlsx", ".json"}
TopNs == -1..MaxTop

(* ------------------------------------------------------------------ *)
(* top_funded_companies                                                *)
(* ------------------------------------------------------------------ *)
Init ==
  /\ pc = "start"
  /\ keepNa = FALSE
  /\ table = EmptyFrame /\ df = EmptyFrame /\ nParsed = 0 /\ top_n = 0
  /\ grouped = <<>> /\ written = NoFile /\ result = Running
  /\ ParseIdle /\ CliIdle /\ DedupIdle

\* lines 77-88: the file is read by its extension and the header is stripped
ReadTable ==
  /\ pc = "start"
  /\ \E ext \in InputExts, h \in Headers, t \in Tables :
       /\ ext \in {".csv", ".xls", ".xlsx"}
       /\ table' = ReadFrame(h, t)
       /\ df' = RenameStripped(ReadFrame(h, t))
  /\ pc' = "columns"
  /\ UNCHANGED <<keepNa, nParsed, top_n, grouped, written, result, parseVars, cliVars, dedupVars>>

UnsupportedInput ==
  /\ pc = "start"
  /\ \E ext \in InputExts :
       /\ ext \notin {".csv", ".xls", ".xlsx"}
       /\ result' = Raised("ValueError", "Unsupported input format", <<>>)
  /\ pc' = "raised"
  /\ UNCHANGED <<keepNa, table, df, nParsed, top_n, grouped, written, parseVars, cliVars, dedupVars>>

\* lines 90-97
CheckColumns ==
  /\ pc = "columns"
  /\ IF MissingColumns(df) # <<>>
       THEN /\ result' = Raised("KeyError", "Missing required column(s)", MissingColumns(df))
            /\ pc' = "raised"
       ELSE /\ result' = result
            /\ pc' = "company"
  /\ UNCHANGED <<keepNa, table, df, nParsed, top_n, grouped, written, parseVars, cliVars, dedupVars>>

\* line 99; what astype(str) of the installed pandas makes of a missing
\* value shows only when the column holds one
NormalizeCompany ==
  /\ pc = "company"
  /\ \E keep \in BOOLEAN :
       /\ keep => \E r \in DOMAIN df.rows : IsNa(Column(df, COMPANY)[r])
       /\ keepNa' = keep
       /\ df' = WithCompany(df, keep)
  /\ pc' = "funding"
  /\ UNCHANGED <<table, nParsed, top_n, grouped, written, result, parseVars, cliVars, dedupVars>>

\* line 100: apply calls _parse_funding row by row; an exception ends the call
ApplyParseFunding ==
  /\ pc = "funding"
  /\ LET values == FundingValues(df)
         bad    == {r \in DOMAIN values : values[r].kind = "ValueError"}
     IN IF bad # {}
          THEN /\ nParsed' = CHOOSE r \in bad : \A q \in bad : r <= q
               /\ result' = Raised("ValueError", "could not convert string to float", <<>>)
               /\ pc' = "raised"
               /\ df' = df
          ELSE /\ nParsed' = Len(df.rows)
               /\ df' = SetColumn(df, FUNDINGUSD, values)
               /\ pc' = "dropna"
               /\ result' = result
  /\ UNCHANGED <<keepNa, table, top_n, grouped, written, parseVars, cliVars, dedupVars>>

\* line 101
DropNaRows ==
  /\ pc = "dropna"
  /\ df' = DropNa(df, {COMPANY, FUNDINGUSD})
  /\ pc' = "group"
  /\ UNCHANGED <<keepNa, table, nParsed, top_n, grouped, written, result, parseVars, cliVars, dedupVars>>

\* lines 103-116
GroupSortHead ==
  /\ pc = "group"
  /\ \E n \in TopNs, sorted \in SortValues(Aggregates(df, keepNa)) :
       /\ top_n' = n
       /\ grouped' = HeadRows(sorted, n)
  /\ pc' = "render"
  /\ UNCHANGED <<keepNa, table, df, nParsed, written, result, parseVars, cliVars, dedupVars>>

\* lines 117-122
Render ==
  /\ pc = "render"
  /\ grouped' \in Renderings(grouped)
  /\ pc' = "write"
  /\ UNCHANGED <<keepNa, table, df, nParsed, top_n, written, result, parseVars, cliVars, dedupVars>>

\* lines 124-134
WriteAndReturn ==
  /\ pc = "write"
  /\ \E out \in OutputExts :
       IF out = "" THEN
         /\ written' = written /\ result' = Returned /\ pc' = "returned"
       ELSE IF out \in {".csv", ".xls", ".xlsx"} THEN
         /\ written' = [exists |-> TRUE, rows |-> grouped]
         /\ result' = Returned /\ pc' = "returned"
       ELSE
         /\ written' = written
         /\ result' = Raised("ValueError", "Unsupported output format", <<>>)
         /\ pc' = "raised"
  /\ UNCHANGED <<keepNa, table, df, nParsed, top_n, grouped, parseVars, cliVars, dedupVars>>

Next ==
  \/ ReadTable
  \/ UnsupportedInput
  \/ CheckColumns
  \/ NormalizeCompany
  \/ ApplyParseFunding
  \/ DropNaRows
  \/ GroupSortHead
  \/ Render
  \/ WriteAndReturn

Spec == Init /\ [][Next]_vars

(* ------------------------------------------------------------------ *)
(* tester2.py: main() up to the call of top_funded_companies            *)
(* ------------------------------------------------------------------ *)
Folders == SUBSET (DOMAIN FolderFiles)
Arguments == {
  NoArg,
  [given |-> TRUE, absolute |-> FALSE, name |-> "a.csv"],
  [given |-> TRUE, absolute |-> TRUE,  name |-> "/data/leads.xlsx"]
}

CliInit ==
  /\ pc = "main"
  /\ folder \in Folders
  /\ input_file \in Arguments
  /\ input_path = NoPath
  /\ found = NotCalled
  /\ ParseIdle /\ PipeIdle /\ DedupIdle

\* _resolve_relative_to_script
ResolveRelativeToScript(arg) ==
  IF arg.absolute THEN [dir |-> "", name |-> arg.name]
  ELSE [dir |-> "here", name |-> arg.name]

\* lines 173-174
MainWithInput ==
  /\ pc = "main"
  /\ input_file.given
  /\ input_path' = ResolveRelativeToScript(input_file)
  /\ pc' = "call"
  /\ UNCHANGED <<folder, input_file, found, parseVars, pipeVars, dedupVars>>

\* lines 175-176
MainAutoFind ==
  /\ pc = "main"
  /\ ~input_file.given
  /\ found' = AutoFindInput(folder)
  /\ IF AutoFindInput(folder).kind = "ok"
       THEN /\ input_path' = [dir |-> "here",
                              name |-> FolderFiles[AutoFindInput(folder).file].name]
            /\ pc' = "call"
       ELSE /\ input_path' = input_path
            /\ pc' = "raised"
  /\ UNCHANGED <<folder, input_file, parseVars, pipeVars, dedupVars>>

CliNext == MainWithInput \/ MainAutoFind
CliSpec == CliInit /\ [][CliNext]_vars

(* ------------------------------------------------------------------ *)
(* usun_duplikat.py: createOutput                                      *)
(* ------------------------------------------------------------------ *)
\* the rows the sheets are made of
SheetRowPool == <<
  Row(Text(AcmeInc), Text(<<"$","2","M">>),     Text(YES)),
  Row(Text(AcmeInc), Text(<<"$","5","M">>),     Text(NO)),
  Row(Text(BetaLLC), Text(<<"5","0","0","K">>), Text(YES)),
  Row(Text(BetaLLC), Text(Garbage),             Text(YES)),
  Row(NA,            IntCell(7),                NA),
  Row(Text(Gamma),   NA,                        Text(NO))
>>

\* a workbook: rows dealt out to at most MaxSheets sheets, in order; a sheet
\* is [ok, rows], ok telling whether it has the three columns (the rows of
\* a sheet without them are never read)
SheetRows == UNION {[1..k -> Range(SheetRowPool)] : k \in 0..MaxRows}
CutFrom(cuts, j) == IF j = 1 THEN 0 ELSE cuts[j - 1]
Cuts(k, n) ==
  IF k = 0 THEN (IF n = 0 THEN {<<>>} ELSE {})
  ELSE {c \in [1..k -> 0..n] : c[k] = n /\ \A j \in 1..(k - 1) : c[j] <= c[j + 1]}
Oks(k, cuts) ==
  {o \in [1..k -> BOOLEAN] : \A j \in 1..k : ~o[j] => cuts[j] = CutFrom(cuts, j)}
Book(t, k, cuts, oks) ==
  [j \in 1..k |-> [ok |-> oks[j], rows |-> SubSeq(t, CutFrom(cuts, j) + 1, cuts[j])]]

DedupInit ==
  /\ pc = "read"
  /\ DedupIdle
  /\ ParseIdle /\ PipeIdle /\ CliIdle

\* line 29
ReadExcel ==
  /\ pc = "read"
  /\ \E t \in SheetRows, k \in 0..MaxSheets :
       \E cuts \in Cuts(k, Len(t)) :
         \E oks \in Oks(k, cuts) :
           workbook' = Book(t, k, cuts, oks)
  /\ sheetIdx' = 1
  /\ pc' = "sheets"
  /\ UNCHANGED <<res, nonReps, outfile, printed, parseVars, pipeVars, cliVars>>

\* line 29 raising FileNotFoundError, lines 49-50
ReadExcelNotFound ==
  /\ pc = "read"
  /\ printed' = Append(printed, "Nie znaleziono pliku")
  /\ pc' = "done"
  /\ UNCHANGED <<workbook, sheetIdx, res, nonReps, outfile, parseVars, pipeVars, cliVars>>

\* line 29 raising another exception (a file that is no workbook, a file
\* that cannot be opened), lines 51-52
ReadExcelFails ==
  /\ pc = "read"
  /\ printed' = Append(printed, "Blad")
  /\ pc' = "done"
  /\ UNCHANGED <<workbook, sheetIdx, res, nonReps, outfile, parseVars, pipeVars, cliVars>>

\* lines 31-36: one turn of the loop over the sheets
FilterSheet ==
  /\ pc = "sheets"
  /\ sheetIdx <= Len(workbook)
  /\ IF workbook[sheetIdx].ok
       THEN /\ res' = Append(res, DropDuplicates(workbook[sheetIdx].rows))
            /\ printed' = printed
       ELSE /\ res' = res
            /\ printed' = Append(printed, "Pominieto arkusz")
  /\ sheetIdx' = sheetIdx + 1
  /\ UNCHANGED <<pc, workbook, nonReps, outfile, parseVars, pipeVars, cliVars>>

\* lines 39-43; pd.concat of an empty list raises, lines 51-52
DeduplicateAndSort ==
  /\ pc = "sheets"
  /\ sheetIdx > Len(workbook)
  /\ IF res = <<>>
       THEN /\ printed' = Append(printed, "Blad")
            /\ nonReps' = nonReps
            /\ pc' = "done"
       ELSE /\ nonReps' \in SortByUsd(WithUsd(DropDuplicateCompanies(Concat(res))))
            /\ printed' = printed
            /\ pc' = "write"
  /\ UNCHANGED <<workbook, sheetIdx, res, outfile, parseVars, pipeVars, cliVars>>

\* lines 45-47: to_excel writes the file, then the two prints, "Zapisano ..."
\* of line 46 and "Folder: ..." of line 47
WriteExcel ==
  /\ pc = "write"
  /\ outfile' = [exists |-> TRUE, rows |-> nonReps]
  /\ printed' = printed \o <<"Zapisano", "Folder">>
  /\ pc' = "done"
  /\ UNCHANGED <<workbook, sheetIdx, res, nonReps, parseVars, pipeVars, cliVars>>

\* line 45 raising (the file is open elsewhere, the folder is read-only),
\* lines 51-52: "Blad" is printed, lines 46-47 are not run and no file is
\* written
WriteExcelFails ==
  /\ pc = "write"
  /\ printed' = Append(printed, "Blad")
  /\ pc' = "done"
  /\ UNCHANGED <<workbook, sheetIdx, res, nonReps, outfile, parseVars, pipeVars, cliVars>>

DedupNext ==
  \/ ReadExcel
  \/ ReadExcelNotFound
  \/ ReadExcelFails
  \/ FilterSheet
  \/ DeduplicateAndSort
  \/ WriteExcel
  \/ WriteExcelFails

DedupSpec == DedupInit /\ [][DedupNext]_vars

(* ------------------------------------------------------------------ *)
(* Vocabulary of the claims                                            *)
(* ------------------------------------------------------------------ *)
Min2(a, b) == IF a < b THEN a ELSE b

\* a decimal number: digits with at most one point and at least one digit
IsDecimal(t) ==
  /\ t # <<>>
  /\ \A i \in DOMAIN t : IsDigit(t[i]) \/ t[i] = "."
  /\ Cardinality({i \in DOMAIN t : t[i] = "."}) <= 1
  /\ \E i \in DOMAIN t : IsDigit(t[i])

\* a decimal number, optional whitespace, at most one suffix letter K, M or B
WellFormedFunding(t) ==
  \E n \in 1..Len(t), k \in 1..Len(t) :
    /\ n <= k
    /\ IsDecimal(SubSeq(t, 1, n))
    /\ \A i \in (n+1)..k : IsSpace(t[i])
    /\ \/ k = Len(t)
       \/ k + 1 = Len(t) /\ t[Len(t)] \in {"K", "M", "B", "k", "m", "b"}

\* the input file with its header names trimmed
Loaded == RenameStripped(table)
HasColumns == \A c \in Range(Required) : c \in Range(Loaded.cols)
Absent == {c \in Range(Required) : \A i \in DOMAIN table.cols : Strip(table.cols[i]) # c}

\* the call has aggregated, sorted and truncated
Aggregated == pc \in {"render", "write", "returned"}
FloatRaised == pc = "raised" /\ result.what = "could not convert string to float"

\* what each row of the input file brings: its Company cell, that name
\* folded (trimmed, in lower case), the group it falls in, its parsed funding
\* and whether its marketplace cell says yes
RowFacts ==
  LET ic  == ColIndex(Loaded, COMPANY)
      ifd == ColIndex(Loaded, FUNDING)
      iu  == ColIndex(Loaded, MARKET)
  IN [r \in DOMAIN table.rows |->
        LET c == table.rows[r][ic]
            u == table.rows[r][iu]
        IN [name |-> c,
            fold |-> IF c.kind = "text" THEN Lower(Strip(c.s)) \o <<>> ELSE <<>>,
            key  |-> NormalizeCompanyCell(c, keepNa),
            fund |-> ParseFunding(table.rows[r][ifd]),
            yes  |-> ~IsNa(u) /\ Lower(PyStr(u)) = <<"y", "e", "s">>]] \o <<>>

\* the rows that reach the aggregation
ContributingIn(facts) ==
  {r \in DOMAIN facts : facts[r].fund.kind = "float" /\ ~IsNa(facts[r].key)}
SameNameUpToCase(a, b) ==
  a.name.kind = "text" /\ b.name.kind = "text" /\ a.fold = b.fold

FundingIn(aggs, company) == (CHOOSE a \in aggs : a.Company = company).FundingUSD

\* C1: at most one returned row per normalised Company (names that differ
\* only by case or surrounding whitespace share a group); each aggregate has
\* the maximum parsed funding of its contributing rows and the flag "Yes"
\* exactly when one of them has a marketplace value equal to "yes" ignoring case
C1_OneAggregatePerCompany ==
  pc = "returned" =>
    LET aggs  == Aggregates(df, keepNa)
        facts == RowFacts
        live  == ContributingIn(facts)
    IN /\ \A i, j \in DOMAIN grouped :
            i # j => grouped[i].Company # grouped[j].Company
       /\ \A i \in DOMAIN grouped : \E a \in aggs : a.Company = grouped[i].Company
       /\ \A a, b \in aggs : a.Company = b.Company => a = b
       /\ {a.Company : a \in aggs} = {facts[r].key : r \in live}
       /\ \A r, q \in live :
            SameNameUpToCase(facts[r], facts[q]) => facts[r].key = facts[q].key
       /\ \A a \in aggs :
            LET rows == {r \in live : facts[r].key = a.Company}
            IN /\ \A r \in rows : DecLeq(facts[r].fund, a.FundingUSD)
               /\ \E r \in rows : facts[r].fund = a.FundingUSD
               /\ a.UsingCloud \in {Text(YES), Text(NO)}
               /\ a.UsingCloud = Text(YES) <=> \E r \in rows : facts[r].yes

\* two rows of one company, spelt differently, the first with less funding
\* and the only "yes": the returned row has the larger amount and "Yes"
C1_Witness ==
  /\ pc = "returned"
  /\ LET facts == RowFacts
     IN \E r, q \in ContributingIn(facts) :
          /\ facts[r].name # facts[q].name
          /\ facts[r].key = facts[q].key
          /\ DecLess(facts[r].fund, facts[q].fund)
          /\ r < q
          /\ facts[r].yes /\ ~facts[q].yes
          /\ \E i \in DOMAIN grouped :
               /\ grouped[i].Company = facts[r].key
               /\ grouped[i].RecentFundingAmount = Text(<<"$","5",".","0","M">>)
               /\ grouped[i].UsingCloudMarketplace = Text(YES)

\* C2: for a positive top_n the returned rows are in non-increasing order of
\* aggregated funding, there are min(top_n, number of aggregates) of them, no
\* omitted aggregate has more funding than a returned one, every aggregate is
\* returned when top_n is at least their number, and truncating raises nothing
C2_SortedTopN ==
  /\ (pc = "returned" /\ top_n > 0) =>
       LET aggs == Aggregates(df, keepNa)
           F    == [i \in DOMAIN grouped |-> FundingIn(aggs, grouped[i].Company)] \o <<>>
           back == {grouped[i].Company : i \in DOMAIN grouped}
       IN /\ \A i \in 1..(Len(grouped) - 1) : DecLeq(F[i + 1], F[i])
          /\ Len(grouped) = Min2(top_n, Cardinality(aggs))
          /\ \A a \in aggs : a.Company \notin back =>
               \A i \in DOMAIN grouped : ~DecLess(F[i], a.FundingUSD)
          /\ top_n >= Cardinality(aggs) => back = {a.Company : a \in aggs}
  /\ (pc = "raised" /\ top_n > 0) => result.what = "Unsupported output format"

\* three companies, the top two asked for, the least funded left out
C2_Witness ==
  /\ pc = "returned"
  /\ top_n = 2
  /\ Len(grouped) = 2
  /\ LET aggs == Aggregates(df, keepNa)
     IN /\ Cardinality(aggs) = 3
        /\ \E a \in aggs :
             /\ a.Company \notin {grouped[i].Company : i \in DOMAIN grouped}
             /\ DecLess(a.FundingUSD, FundingIn(aggs, grouped[2].Company))

\* C3: a row whose Company is missing or blank is dropped: no returned row
\* has an empty Company, and every returned Company is the normalised name
\* of a row whose Company cell is present and not blank
C3_BlankCompanyDropped ==
  pc = "returned" =>
    LET facts == RowFacts
    IN \A i \in DOMAIN grouped :
         /\ grouped[i].Company # Text(<<>>)
         /\ \E r \in ContributingIn(facts) :
              /\ ~IsNa(facts[r].name)
              /\ Strip(PyStr(facts[r].name)) # <<>>
              /\ facts[r].key = grouped[i].Company

ValidCompany(row) ==
  LET c == row[ColIndex(Loaded, COMPANY)]
  IN ~IsNa(c) /\ Strip(PyStr(c)) # <<>>
UnparseableFunding(row) ==
  LET f == row[ColIndex(Loaded, FUNDING)]
  IN IsNa(f) \/ ~WellFormedFunding(CleanText(f))
BadFundingRow(row) == ValidCompany(row) /\ UnparseableFunding(row)

\* C4: rows with a valid Company and an unparseable funding cell raise no
\* error and leave every aggregate as it is without them; a company that
\* has only such rows is not returned
C4_UnparseableRowExcluded ==
  (HasColumns /\ \E r \in DOMAIN Loaded.rows : BadFundingRow(Loaded.rows[r])) =>
    LET without == [cols |-> table.cols,
                    rows |-> SelectSeq(table.rows, LAMBDA row : ~BadFundingRow(row))]
    IN /\ ~FloatRaised
       /\ Aggregated =>
            /\ Aggregates(df, keepNa) = PipelineAggregates(without, keepNa).aggs
            /\ LET facts == RowFacts
               IN \A i \in DOMAIN grouped : \E r \in ContributingIn(facts) :
                    facts[r].key = grouped[i].Company

\* C7: with a required column absent after trimming the header, the call
\* raises the missing-column error naming exactly the absent columns, before
\* any row is normalised, parsed or aggregated and without writing output
C7_MissingColumnsFailFast ==
  (pc \notin {"start", "columns"} /\ result.what # "Unsupported input format"
     /\ Absent # {}) =>
    /\ pc = "raised"
    /\ result.kind = "KeyError"
    /\ Range(result.missing) = Absent
    /\ Len(result.missing) = Cardinality(Absent)
    /\ df = Loaded
    /\ nParsed = 0
    /\ grouped = <<>>
    /\ written = NoFile

\* a padded header is accepted (nothing absent), and a file of three rows
\* without two of the columns is refused
C7_Witness ==
  /\ pc = "raised"
  /\ result.kind = "KeyError"
  /\ result.missing = <<FUNDING, MARKET>>
  /\ Len(table.rows) = 3

PermutedFiles ==
  {[cols |-> table.cols, rows |-> [i \in DOMAIN table.rows |-> table.rows[p[i]]]] :
     p \in Permutations(DOMAIN table.rows)}

\* C8: every permutation of the rows of the input gives the aggregates the
\* call is about to sort and truncate (and the same failure, when a cell
\* makes the parser raise)
C8_PermutationInvariant ==
  /\ pc = "group" =>
       \A f \in PermutedFiles :
         PipelineAggregates(f, keepNa) = [raised |-> FALSE, aggs |-> Aggregates(df, keepNa)]
  /\ FloatRaised => \A f \in PermutedFiles : PipelineAggregates(f, keepNa).raised

\* three rows of one company whose funding and flags differ row to row
C8_Witness ==
  /\ pc = "group"
  /\ Len(table.rows) = 3
  /\ LET facts == RowFacts
     IN \E r, q \in ContributingIn(facts) :
          /\ facts[r].key = facts[q].key
          /\ facts[r].fund # facts[q].fund
          /\ facts[r].yes /\ ~facts[q].yes
  /\ Cardinality(PermutedFiles) = 6

\* the value of a decimal number written with digits and at most one point
DecimalValue(t) ==
  LET points == {i \in DOMAIN t : t[i] = "."}
      frac   == IF points = {} THEN 0 ELSE Len(t) - (CHOOSE i \in points : TRUE)
  IN Norm(DigitsValue(Remove(t, {"."})), -frac)

\* the number a well-formed text stands for: the double nearest its decimal
\* number times the multiplier of its suffix letter
WellFormedValue(t) ==
  LET last   == t[Len(t)]
      suffix == IF IsNumChar(last) THEN <<>> ELSE Upper(<<last>>)
      number == DecimalValue(SelectSeq(t, IsNumChar))
  IN Norm(number.m, number.e + SuffixExp(suffix))

\* C5: a call on a non-missing input whose cleaned text is malformed (a bare
\* sign, more than one decimal point, a lone point, letters other than one
\* K/M/B suffix, several suffix letters) returns NaN and raises nothing
C5_MalformedGivesNaN ==
  (pc = "parsed" /\ ~IsNa(raw) /\ ~WellFormedFunding(CleanText(raw))) =>
    parsed = NaN

\* C6: a call on a text that is, once cleaned, a well-formed decimal number
\* with at most one suffix letter returns the number times the multiplier of
\* the suffix, and a call on a numeric value returns that value unchanged
C6_WellFormedGivesNumber ==
  pc = "parsed" =>
    /\ (raw.kind = "text" /\ WellFormedFunding(CleanText(raw))) =>
         parsed = Num(WellFormedValue(CleanText(raw)))
    /\ raw.kind \in {"int", "float"} => parsed = Num(ValueOf(raw))

\* the data files auto-discovery looks for
Candidates == {f \in folder : FolderFiles[f].suffix \in {".csv", ".xls", ".xlsx"}}

\* C9: run without an input-file argument, the script uses the only candidate
\* of its folder as the input, fails with the no-input error when there is
\* none, and with the ambiguity error listing every candidate when there are
\* several
C9_AutoDiscovery ==
  (pc \in {"call", "raised"} /\ ~input_file.given) =>
    /\ Cardinality(Candidates) = 1 =>
         /\ pc = "call"
         /\ found.kind = "ok" /\ found.file \in Candidates
         /\ input_path = [dir |-> "here", name |-> FolderFiles[found.file].name]
    /\ Candidates = {} =>
         pc = "raised" /\ found.kind = "FileNotFoundError"
    /\ Cardinality(Candidates) > 1 =>
         /\ pc = "raised" /\ found.kind = "FileExistsError"
         /\ Range(found.names) = {FolderFiles[f].name : f \in Candidates}

\* the rows of the sheets that have the required columns, in sheet order
RECURSIVE InputRows(_)
InputRows(book) ==
  IF book = <<>> THEN <<>>
  ELSE InputRows(SubSeq(book, 1, Len(book) - 1))
         \o (IF book[Len(book)].ok THEN book[Len(book)].rows ELSE <<>>)

Wrote == pc = "done" /\ outfile # NoFile
OnePerCompany(rows, out) ==
  /\ \A i, j \in DOMAIN out : out[i].c = out[j].c => i = j
  /\ {out[i].c : i \in DOMAIN out} = {rows[r].c : r \in DOMAIN rows}
SortedDescending(out) ==
  \A i \in 1..(Len(out) - 1) : DecLeq(ValueOf(out[i + 1].usd), ValueOf(out[i].usd))

\* C10: the written file has one row per distinct Company, its amount the
\* maximum of cleanMoney over all input rows of that Company, and the rows
\* are sorted by amount descending.  Line 40 keeps the first row of each
\* Company before line 41 computes any amount, so a Company whose first row
\* holds the smaller amount is written with it.
C10_MaxFundingKept ==
  Wrote =>
    LET rows == InputRows(workbook)
        out  == outfile.rows
    IN /\ OnePerCompany(rows, out)
       /\ SortedDescending(out)
       /\ \A i \in DOMAIN out :
            /\ \E r \in DOMAIN rows :
                 rows[r].c = out[i].c /\ cleanMoney(rows[r].f) = out[i].usd
            /\ \A r \in DOMAIN rows :
                 rows[r].c = out[i].c =>
                   DecLeq(ValueOf(cleanMoney(rows[r].f)), ValueOf(out[i].usd))

====
